---- MODULE Spec2Model ----
(***************************************************************************)
(* The fleet acquisition pipeline of package/download.py: the per-host    *)
(* request broker (request_queue, fetch_json, download_file), the three    *)
(* stages of QueryClient.update_apps (clusters, deployments, releases),    *)
(* the archive download, lock reconciliation and the end-of-run cleanup.   *)
(* Every coroutine is a task whose steps are the code between two awaits.  *)
(***************************************************************************)
EXTENDS Integers, Sequences, FiniteSets, TLC

\* ---------------------------------------------------------------- bounds
NumApps == 2
MaxConcurrent == 1
MaxFaults == 1
MaxPrev == 2
MaxDeployments == 2

\* ------------------------------------------------------ program constants
max_retries == 3

Envs == {"prod", "tt02"}
StudioEnvs == {"prod", "staging", "dev"}
Orgs == {"a"}
AppNames == <<"x", "y", "z">>
Apps == {AppNames[i] : i \in 1..NumApps}
Versions == {"1", "2"}

Clusters == Envs \X Orgs
Keys == Envs \X Orgs \X Apps
MainTask == <<"main", "", "">>
ClusterTask(c) == <<c[1], c[2], "">>
ClusterTasks == {ClusterTask(c) : c \in Clusters}
Tasks == {MainTask} \cup ClusterTasks \cup Keys
ClusterOf(k) == <<k[1], k[2]>>

\* Deployment.key / Release.key: the triple the string "{env}-{org}-{app}" is built from
key(env, org, app) == <<env, org, app>>

\* a key file as read_studio_keys returns it, in file order: dev has a null token
KeyFile == << [env |-> "prod", token |-> TRUE], [env |-> "dev", token |-> FALSE] >>

\* hosts (urlparse(url).netloc)
OrgsHost == <<"cdn", "", "">>
ClusterHost(c) == <<"apps", c[1], c[2]>>
StudioHost(se) == <<"studio", se, "">>
Hosts == {OrgsHost} \cup {ClusterHost(c) : c \in Clusters}
            \cup {StudioHost(se) : se \in StudioEnvs}

\* targetCommitish of the release tagged with a version
TargetCommitish(v) == IF v = "1" THEN "c1" ELSE "c2"

\* ------------------------------------------------------------ VersionLock
None == [status |-> "None"]

LockData(k, version, commit_sha, status, studio_env) ==
    [env |-> k[1], org |-> k[2], app |-> k[3], status |-> status,
     version |-> version, commit_sha |-> commit_sha, studio_env |-> studio_env]

\* Release.key, with a variant for mutation that takes studio_env for env
release_key_studio_env(release) == key(release.studio_env, release.org, release.app)

release_key(release) == key(release.env, release.org, release.app)

makeLock(release, status) ==
    [env |-> release.env, org |-> release.org, app |-> release.app,
     status |-> status, version |-> release.version,
     commit_sha |-> release.commit_sha, studio_env |-> release.studio_env]

\* a dict in insertion order: a sequence of [key, data]
\* (a variant of Put, for mutation: the assignment is lost)
PutNothing(lock, k, d) == lock

Has(lock, k) == \E i \in DOMAIN lock : lock[i].key = k
Get(lock, k) ==
    IF Has(lock, k) THEN lock[CHOOSE i \in DOMAIN lock : lock[i].key = k].data
    ELSE None
Put(lock, k, d) ==
    IF Has(lock, k)
    THEN [i \in DOMAIN lock |-> IF lock[i].key = k THEN [key |-> k, data |-> d] ELSE lock[i]]
    ELSE Append(lock, [key |-> k, data |-> d])
LockKeys(lock) == {lock[i].key : i \in DOMAIN lock}

\* get_valid_envs
RECURSIVE get_valid_envs(_)
get_valid_envs(raw_envs) ==
    IF raw_envs = <<>> THEN <<>>
    ELSE LET rest == get_valid_envs(Tail(raw_envs))
         IN  CASE Head(raw_envs) = "tt02" -> <<"tt02">> \o rest
               [] Head(raw_envs) = "production" -> <<"prod">> \o rest
               [] OTHER -> rest

SeqToSet(s) == {s[i] : i \in DOMAIN s}

\* the orgs documents the CDN may serve
OrgsDocs == { [o \in Orgs |-> <<"production", "tt02">>],
              [o \in Orgs |-> <<"at22", "production">>] }

\* the clusters of get_clusters for an orgs document
get_clusters(orgs) ==
    UNION { {<<e, org>> : e \in SeqToSet(get_valid_envs(orgs[org]))} : org \in Orgs }

\* the raw deployments a cluster may report: always the kuberneteswrapper itself,
\* and each app either absent or deployed at one version
RawResponses(c) ==
    { {[version |-> "1", release |-> <<"kuberneteswrapper", "">>]}
        \cup {[version |-> f[a], release |-> <<c[2], a>>] : a \in {b \in Apps : f[b] # "-"}}
      : f \in [Apps -> Versions \cup {"-"}] }

\* get_deployments: the Deployments of a response (release.removeprefix("{org}-"))
get_deployments(c, response) ==
    { [k |-> key(c[1], c[2], d.release[2]), version |-> d.version]
      : d \in {r \in response : r.release # <<"kuberneteswrapper", "">>} }

VARIABLES
    keys,                \* QueryClient.keys
    retry_failed,        \* QueryClient.retry_failed
    prev_version_lock,   \* the lock read at construction
    next_version_lock,   \* the lock being built
    lock_file,           \* .apps.lock.json on disk: [entries, valid]
    files,               \* {key}.zip on disk: "absent", "empty", "partial", "complete"
    opened,              \* the archives opened for writing in this run
    queue,               \* BaseQueryClient.queues: permits available per host
    pc,                  \* where each task is
    attempt,             \* fetch_json's attempt of each task (its nesting depth)
    must_cancel,         \* tasks with a CancelledError to be delivered
    dep,                 \* per deployment task: the Deployment and the Release in progress
    deployed,            \* per cluster: the deployments response it received, {} before
    stats,               \* the statistics lists of QueryClient
    cancelled,           \* update_apps was cancelled
    faults,              \* the requests that failed so far (errors, error statuses, faults)
    run,                 \* 1 for the first run of the program, 2 for the run after it
    remote,              \* what the remote services answered in the first run
    versions,            \* the Version objects under comparison and the results
    app,                 \* an App object, its archive and the handles it opened
    query,               \* a query pipeline over a corpus: its stages and pool tasks
    containers,          \* IterContainer objects and the iterables they hold
    gathered             \* the update_deployment coroutines gathered for listed Deployments

\* the state of the acquisition run, and the state of the analysis library
fleet == <<run, remote, keys, retry_failed, prev_version_lock, next_version_lock, lock_file, files,
           opened, queue, pc, attempt, must_cancel, dep, deployed, stats, cancelled, faults>>
analysis == <<versions, app, query, containers, gathered>>
vars == <<fleet, analysis>>

\* no object of the analysis library exists
NoAnalysis ==
    versions = <<>> /\ app = <<>> /\ query = <<>> /\ containers = <<>> /\ gathered = <<>>

\* ------------------------------------------------------ the remote side
\* the requests of a run, by URL: the orgs document, the deployments of a cluster,
\* the releases of an app on a studio environment, the archive of a commit
OrgsReq == <<"orgs", "", "", "", "">>
DeplReq(c) == <<"deployments", c[1], c[2], "", "">>
RelReq(k, se) == <<"releases", k[1], k[2], k[3], se>>
DlReq(k, se) == <<"archive", k[1], k[2], k[3], se>>
Requests == {OrgsReq} \cup {DeplReq(c) : c \in Clusters}
              \cup {RelReq(k, se) : k \in Keys, se \in StudioEnvs}
              \cup {DlReq(k, se) : k \in Keys, se \in StudioEnvs}

NoRemote(on) == [on |-> on, asked |-> {}, answer |-> [r \in Requests |-> {}]]

\* in the run after the first, an unchanged remote side answers a request as before
Replays(req) == run = 2 /\ req \in remote.asked
Allowed(req, a) == Replays(req) => remote.answer[req] = a
Record(req, a) ==
    IF remote.on /\ run = 1
    THEN [remote EXCEPT !.asked = @ \cup {req}, !.answer[req] = a]
    ELSE remote
\* a failing request: a new fault, or the repetition of one of the first run
Fault(req) ==
    IF Replays(req) THEN faults' = faults
    ELSE faults < MaxFaults /\ faults' = faults + 1

HasToken(se) == \E i \in DOMAIN keys : keys[i].env = se /\ keys[i].token
KeyEnvs == [i \in DOMAIN keys |-> keys[i].env]

\* ------------------------------------------------------------------ Init
PrevStudioEnvs == {"prod"}
PrevEntries(k) ==
    { LockData(k, "1", "c1", s, se) : s \in {"success", "failed"}, se \in PrevStudioEnvs }

\* the lock files a previous run may have left: at most MaxPrev entries, in key order
KeyOrder == <<  <<"prod", "a", "x">>, <<"prod", "a", "y">>, <<"prod", "a", "z">>,
                <<"tt02", "a", "x">>, <<"tt02", "a", "y">>, <<"tt02", "a", "z">> >>
RECURSIVE LocksFrom(_, _)
LocksFrom(i, n) ==
    IF i > Len(KeyOrder) \/ n = 0 THEN {<<>>}
    ELSE LET rest == LocksFrom(i + 1, n)
             with == IF KeyOrder[i] \in Keys
                     THEN { <<[key |-> KeyOrder[i], data |-> d]>> \o l
                            : d \in PrevEntries(KeyOrder[i]), l \in LocksFrom(i + 1, n - 1) }
                     ELSE {}
         IN  rest \cup with
PrevLocks == LocksFrom(1, MaxPrev)

NoDep == [version |-> "-", commit_sha |-> "-", studio_env |-> "-", envs |-> <<>>]
NoStats == [fetch_orgs_failed |-> FALSE,
            fetch_deployments_with_existing_apps_failed |-> {},
            fetch_deployments_failed |-> {},
            skipped_releases_failure |-> {},
            already_up_to_date_releases |-> {},
            fetch_release_with_existing_app_failed |-> {},
            no_matching_releases |-> {},
            download_success |-> {},
            download_failed |-> {},
            apps_removed |-> {}]

\* the program default of max_concurrent_requests_per_domain
max_concurrent_requests_per_domain == 4

\* the key files of the runs with several studio environments: the second holds tokens
\* for prod and staging
KeyFiles ==
    { KeyFile,
      << [env |-> "prod", token |-> TRUE], [env |-> "staging", token |-> TRUE] >> }

\* QueryClient.__init__ on one of the key files and lock files given, with so many
\* permits per host; `spent` is where the count of faults starts (MaxFaults - n lets
\* n requests fail)
Boot(keyfiles, locks, permits, spent) ==
    /\ run = 1
    /\ keys \in keyfiles
    /\ retry_failed \in BOOLEAN
    /\ prev_version_lock \in locks
    /\ next_version_lock = <<>>
    /\ lock_file = [entries |-> prev_version_lock, valid |-> TRUE]
    /\ files = [k \in Keys |->
                  IF Get(prev_version_lock, k).status = "success" THEN "complete" ELSE "absent"]
    /\ opened = {}
    /\ queue = [h \in Hosts |-> permits]
    /\ pc = [t \in Tasks |-> IF t = MainTask THEN "new" ELSE "idle"]
    /\ attempt = [t \in Tasks |-> 0]
    /\ must_cancel = {}
    /\ dep = [k \in Keys |-> NoDep]
    /\ deployed = [c \in Clusters |-> {}]
    /\ stats = NoStats
    /\ cancelled = FALSE
    /\ faults = spent

Start == Boot({KeyFile}, PrevLocks, MaxConcurrent, 0)

Init == Start /\ remote = NoRemote(FALSE) /\ NoAnalysis

\* ------------------------------------------------------ request broker
\* request_queue: `await queue.get()` takes a permit at once when one is there
\* (a variant of TakePermit, for mutation: the queue keeps the permit it hands out)
TakeNoPermit(q, h) == q
TakePermit(q, h) == IF q[h] > 0 THEN [q EXCEPT ![h] = @ - 1] ELSE q
\* (a variant of AfterGet, for mutation: a get that never waits)
AfterGetNoWait(q, h) == "http"
AfterGet(q, h) == IF q[h] > 0 THEN "http" ELSE "acq"
\* the finally blocks of the n nested request_queue contexts a task is in
PutPermits(q, h, n) == [q EXCEPT ![h] = @ + n]

\* the permits a task holds: one per nested request_queue context it is inside
Held(t) ==
    CASE pc[t] \in {"http", "sleep"} -> attempt[t]
      [] pc[t] = "acq" -> attempt[t] - 1
      [] pc[t] \in {"dl_http", "dl_stream"} -> 1
      [] OTHER -> 0

HostOf(t) ==
    IF t = MainTask THEN OrgsHost
    ELSE IF t \in ClusterTasks THEN ClusterHost(<<t[1], t[2]>>)
    ELSE StudioHost(dep[t].studio_env)

\* the HTTP requests in flight to a host
InFlight(h) == {t \in Tasks : HostOf(t) = h /\ pc[t] \in {"http", "dl_http", "dl_stream"}}

Finished(t) == pc[t] \in {"idle", "done", "cancelled"}

\* request_queue, line 88: a task blocked in `await queue.get()` gets a permit
Acquire(t) ==
    /\ pc[t] = "acq"
    /\ t \notin must_cancel
    /\ queue[HostOf(t)] > 0
    /\ queue' = TakePermit(queue, HostOf(t))
    /\ pc' = [pc EXCEPT ![t] = "http"]
    /\ UNCHANGED <<analysis, run, remote, keys, retry_failed, prev_version_lock, next_version_lock, lock_file, files,
                   opened, attempt, must_cancel, dep, deployed, stats, cancelled, faults>>

\* (a variant of ReadTimeout, for mutation: the attempt is not compared with max_retries)
ReadTimeoutAlways(t) ==
    /\ pc[t] = "http"
    /\ t \notin must_cancel
    /\ faults < MaxFaults
    /\ faults' = faults + 1
    /\ pc' = [pc EXCEPT ![t] = "sleep"]
    /\ UNCHANGED <<analysis, run, remote, keys, retry_failed, prev_version_lock, next_version_lock, lock_file, files,
                   opened, queue, attempt, must_cancel, dep, deployed, stats, cancelled>>

\* fetch_json, lines 99-105: a read timeout below max_retries; the permit is kept
\* while the task sleeps
ReadTimeout(t) ==
    /\ pc[t] = "http"
    /\ t \notin must_cancel
    /\ faults < MaxFaults
    /\ faults' = faults + 1
    /\ attempt[t] < max_retries
    /\ pc' = [pc EXCEPT ![t] = "sleep"]
    /\ UNCHANGED <<analysis, run, remote, keys, retry_failed, prev_version_lock, next_version_lock, lock_file, files,
                   opened, queue, attempt, must_cancel, dep, deployed, stats, cancelled>>

\* fetch_json, line 106: the nested call, inside the caller's request_queue context
Retry(t) ==
    /\ pc[t] = "sleep"
    /\ t \notin must_cancel
    /\ attempt' = [attempt EXCEPT ![t] = @ + 1]
    /\ pc' = [pc EXCEPT ![t] = AfterGet(queue, HostOf(t))]
    /\ queue' = TakePermit(queue, HostOf(t))
    /\ UNCHANGED <<analysis, run, remote, keys, retry_failed, prev_version_lock, next_version_lock, lock_file, files,
                   opened, must_cancel, dep, deployed, stats, cancelled, faults>>

\* a task cancelled before its first step never runs
CancelNew(t) ==
    /\ pc[t] = "new"
    /\ t \in must_cancel
    /\ pc' = [pc EXCEPT ![t] = "cancelled"]
    /\ must_cancel' = must_cancel \ {t}
    /\ UNCHANGED <<analysis, run, remote, keys, retry_failed, prev_version_lock, next_version_lock, lock_file, files,
                   opened, queue, attempt, dep, deployed, stats, cancelled, faults>>

\* ----------------------------------------------------------- update_apps
\* update_apps -> get_clusters -> fetch_orgs -> fetch_json: up to `await client.get`
UpdateAppsStart ==
    /\ pc[MainTask] = "new"
    /\ attempt' = [attempt EXCEPT ![MainTask] = 1]
    /\ pc' = [pc EXCEPT ![MainTask] = AfterGet(queue, OrgsHost)]
    /\ queue' = TakePermit(queue, OrgsHost)
    /\ UNCHANGED <<analysis, run, remote, keys, retry_failed, prev_version_lock, next_version_lock, lock_file, files,
                   opened, must_cancel, dep, deployed, stats, cancelled, faults>>

\* the orgs document arrives: get_clusters builds the clusters, update_apps gathers
\* one update_cluster task per cluster
FetchOrgsOk(doc) ==
    /\ pc[MainTask] = "http"
    /\ Allowed(OrgsReq, {doc})
    /\ remote' = Record(OrgsReq, {doc})
    /\ queue' = PutPermits(queue, OrgsHost, attempt[MainTask])
    /\ attempt' = [attempt EXCEPT ![MainTask] = 0]
    /\ pc' = [t \in Tasks |->
                IF t = MainTask THEN "gather"
                ELSE IF t \in {ClusterTask(c) : c \in get_clusters(doc)} THEN "new"
                ELSE pc[t]]
    /\ UNCHANGED <<analysis, run, keys, retry_failed, prev_version_lock, next_version_lock, lock_file, files,
                   opened, must_cancel, dep, deployed, stats, cancelled, faults>>

\* fetch_orgs, lines 257-259: the request raised; get_clusters returns []
FetchOrgsFail ==
    /\ pc[MainTask] = "http"
    /\ Fault(OrgsReq)
    /\ Allowed(OrgsReq, {})
    /\ remote' = Record(OrgsReq, {})
    /\ queue' = PutPermits(queue, OrgsHost, attempt[MainTask])
    /\ attempt' = [attempt EXCEPT ![MainTask] = 0]
    /\ stats' = [stats EXCEPT !.fetch_orgs_failed = TRUE]
    /\ pc' = [pc EXCEPT ![MainTask] = "gather"]
    /\ UNCHANGED <<analysis, run, keys, retry_failed, prev_version_lock, next_version_lock, lock_file, files,
                   opened, must_cancel, dep, deployed, cancelled>>

\* the user interrupts the run while update_apps awaits the gather: the gather cancels
\* its children, and a CancelledError is thrown into each at its await
Cancel ==
    /\ pc[MainTask] = "gather"
    /\ ~cancelled
    /\ cancelled' = TRUE
    /\ must_cancel' = {t \in Tasks \ {MainTask} : ~Finished(t) /\ pc[t] # "gather"}
    /\ UNCHANGED <<analysis, run, remote, keys, retry_failed, prev_version_lock, next_version_lock, lock_file, files,
                   opened, queue, pc, attempt, dep, deployed, stats, faults>>

\* update_apps, lines 415-420: the gather returns, or raises the CancelledError,
\* which leaves update_apps
GatherDone ==
    /\ pc[MainTask] = "gather"
    /\ \A t \in ClusterTasks : Finished(t)
    /\ pc' = [pc EXCEPT ![MainTask] = IF cancelled THEN "cancelled" ELSE "remove"]
    /\ UNCHANGED <<analysis, run, remote, keys, retry_failed, prev_version_lock, next_version_lock, lock_file, files,
                   opened, queue, attempt, must_cancel, dep, deployed, stats, cancelled,
                   faults>>

\* remove_undeployed_apps, with a variant for mutation that swaps the two locks
UndeployedSwapped == {k \in LockKeys(next_version_lock) : Get(prev_version_lock, k) = None}

Undeployed == {k \in LockKeys(prev_version_lock) : Get(next_version_lock, k) = None}

remove_undeployed_apps ==
    /\ pc[MainTask] = "remove"
    /\ files' = [k \in Keys |-> IF k \in Undeployed THEN "absent" ELSE files[k]]
    /\ stats' = [stats EXCEPT !.apps_removed = Undeployed]
    /\ pc' = [pc EXCEPT ![MainTask] = "write"]
    /\ UNCHANGED <<analysis, run, remote, keys, retry_failed, prev_version_lock, next_version_lock, lock_file, opened,
                   queue, attempt, must_cancel, dep, deployed, cancelled, faults>>

\* write_version_lock, line 234: open(lock_path, "w") truncates the file
WriteOpen ==
    /\ pc[MainTask] = "write"
    /\ lock_file' = [entries |-> <<>>, valid |-> FALSE]
    /\ pc' = [pc EXCEPT ![MainTask] = "dump"]
    /\ UNCHANGED <<analysis, run, remote, keys, retry_failed, prev_version_lock, next_version_lock, files, opened, queue,
                   attempt, must_cancel, dep, deployed, stats, cancelled, faults>>

\* write_version_lock, line 235: json.dump writes the entries one after the other
WriteDump ==
    /\ pc[MainTask] = "dump"
    /\ Len(lock_file.entries) < Len(next_version_lock)
    /\ lock_file' = [entries |-> Append(lock_file.entries,
                                         next_version_lock[Len(lock_file.entries) + 1]),
                     valid |-> FALSE]
    /\ UNCHANGED <<analysis, run, remote, keys, retry_failed, prev_version_lock, next_version_lock, files, opened, queue,
                   pc, attempt, must_cancel, dep, deployed, stats, cancelled, faults>>

\* write_version_lock: the closing brace is written and the file closed
WriteClose ==
    /\ pc[MainTask] = "dump"
    /\ Len(lock_file.entries) = Len(next_version_lock)
    /\ lock_file' = [entries |-> lock_file.entries, valid |-> TRUE]
    /\ pc' = [pc EXCEPT ![MainTask] = "done"]
    /\ UNCHANGED <<analysis, run, remote, keys, retry_failed, prev_version_lock, next_version_lock, files, opened, queue,
                   attempt, must_cancel, dep, deployed, stats, cancelled, faults>>

\* the process is killed during the end-of-run phase
Crash ==
    /\ pc[MainTask] \in {"write", "dump"}
    /\ pc' = [pc EXCEPT ![MainTask] = "crashed"]
    /\ UNCHANGED <<analysis, run, remote, keys, retry_failed, prev_version_lock, next_version_lock, lock_file, files,
                   opened, queue, attempt, must_cancel, dep, deployed, stats, cancelled,
                   faults>>

\* -------------------------------------------------------- update_cluster
\* update_cluster -> get_deployments -> fetch_deployments -> fetch_json
ClusterStart(c) ==
    LET t == ClusterTask(c) IN
    /\ pc[t] = "new"
    /\ t \notin must_cancel
    /\ attempt' = [attempt EXCEPT ![t] = 1]
    /\ pc' = [pc EXCEPT ![t] = AfterGet(queue, ClusterHost(c))]
    /\ queue' = TakePermit(queue, ClusterHost(c))
    /\ UNCHANGED <<analysis, run, remote, keys, retry_failed, prev_version_lock, next_version_lock, lock_file, files,
                   opened, must_cancel, dep, deployed, stats, cancelled, faults>>

\* fetch_deployments, lines 278-279, get_deployments and update_cluster's gather:
\* one update_deployment task per Deployment of the response
FetchDeploymentsOk(c, response) ==
    LET t == ClusterTask(c)
        ds == get_deployments(c, response)
    IN
    /\ pc[t] = "http"
    /\ t \notin must_cancel
    /\ Allowed(DeplReq(c), response)
    /\ remote' = Record(DeplReq(c), response)
    /\ Cardinality({k \in Keys : pc[k] # "idle"}) + Cardinality(ds) <= MaxDeployments
    /\ queue' = PutPermits(queue, ClusterHost(c), attempt[t])
    /\ attempt' = [attempt EXCEPT ![t] = 0]
    /\ deployed' = [deployed EXCEPT ![c] = response]
    /\ pc' = [u \in Tasks |->
                IF u = t THEN "gather"
                ELSE IF \E d \in ds : d.k = u THEN "new"
                ELSE pc[u]]
    /\ dep' = [k \in Keys |->
                IF \E d \in ds : d.k = k
                THEN [NoDep EXCEPT !.version = (CHOOSE d \in ds : d.k = k).version]
                ELSE dep[k]]
    /\ UNCHANGED <<analysis, run, keys, retry_failed, prev_version_lock, next_version_lock, lock_file, files,
                   opened, must_cancel, stats, cancelled, faults>>

\* (a variant of CarryCluster, for mutation: nothing is copied over)
CarryNothing(lock, prevs, c) == lock

\* fetch_deployments, lines 285-288: the entries of the cluster are copied over
RECURSIVE CarryCluster(_, _, _)
CarryCluster(lock, prevs, c) ==
    IF prevs = <<>> THEN lock
    ELSE LET e == Head(prevs)
         IN  CarryCluster(IF e.data.env = c[1] /\ e.data.org = c[2]
                          THEN Put(lock, e.key, e.data) ELSE lock,
                          Tail(prevs), c)

failed_with_existing_apps(c) ==
    \E i \in DOMAIN prev_version_lock :
        prev_version_lock[i].data.env = c[1] /\ prev_version_lock[i].data.org = c[2]

\* fetch_deployments, lines 280-296: the request raised (an error, or the
\* CancelledError thrown into the task); get_deployments returns []
FetchDeploymentsFail(c) ==
    LET t == ClusterTask(c) IN
    /\ IF t \in must_cancel
       THEN pc[t] \in {"acq", "http", "sleep"} /\ UNCHANGED <<faults, remote>>
       ELSE /\ pc[t] = "http"
            /\ Fault(DeplReq(c))
            /\ Allowed(DeplReq(c), {})
            /\ remote' = Record(DeplReq(c), {})
    /\ queue' = PutPermits(queue, ClusterHost(c), Held(t))
    /\ next_version_lock' = CarryCluster(next_version_lock, prev_version_lock, c)
    /\ stats' = [stats EXCEPT
                   !.fetch_deployments_with_existing_apps_failed =
                       IF failed_with_existing_apps(c) THEN @ \cup {c} ELSE @,
                   !.fetch_deployments_failed = @ \cup {c}]
    /\ pc' = [pc EXCEPT ![t] = "done"]
    /\ attempt' = [attempt EXCEPT ![t] = 0]
    /\ must_cancel' = must_cancel \ {t}
    /\ UNCHANGED <<analysis, run, keys, retry_failed, prev_version_lock, lock_file, files, opened, dep,
                   deployed, cancelled>>

\* update_cluster, line 463: the gather of the cluster's deployments ends
ClusterDone(c) ==
    LET t == ClusterTask(c) IN
    /\ pc[t] = "gather"
    /\ \A k \in Keys : ClusterOf(k) = c => Finished(k)
    /\ pc' = [pc EXCEPT ![t] = IF cancelled THEN "cancelled" ELSE "done"]
    /\ UNCHANGED <<analysis, run, remote, keys, retry_failed, prev_version_lock, next_version_lock, lock_file, files,
                   opened, queue, attempt, must_cancel, dep, deployed, stats, cancelled,
                   faults>>

\* ----------------------------------------------------- update_deployment
Prev(k) == Get(prev_version_lock, k)

\* update_repository, lines 473-489, from its start to the first suspension, for the
\* Release (se, sha) of deployment k, with the queues q and the statistics st:
\* a studio environment that is no key of the key file raises, a null token ends it;
\* else download_file takes a permit, opens the file for writing (truncating it) and
\* sends the request
update_repository(k, se, sha, q, st) ==
    LET h == StudioHost(se) IN
    /\ stats' = st
    /\ IF \A i \in DOMAIN keys : keys[i].env # se
       THEN \* line 475: self.keys[release.studio_env] raises KeyError
            /\ pc' = [pc EXCEPT ![k] = "raised"]
            /\ attempt' = [attempt EXCEPT ![k] = 0]
            /\ queue' = q
            /\ UNCHANGED <<next_version_lock, dep, files, opened>>
       ELSE IF ~HasToken(se)
       THEN /\ next_version_lock' = IF Prev(k) # None
                                    THEN Put(next_version_lock, k, Prev(k))
                                    ELSE next_version_lock
            /\ pc' = [pc EXCEPT ![k] = "done"]
            /\ dep' = [dep EXCEPT ![k] = NoDep]
            /\ attempt' = [attempt EXCEPT ![k] = 0]
            /\ queue' = q
            /\ UNCHANGED <<files, opened>>
       ELSE /\ next_version_lock' = next_version_lock
            /\ dep' = [dep EXCEPT ![k].studio_env = se, ![k].commit_sha = sha,
                                  ![k].envs = <<>>]
            /\ attempt' = [attempt EXCEPT ![k] = 1]
            /\ queue' = TakePermit(q, h)
            /\ IF q[h] > 0
               THEN /\ pc' = [pc EXCEPT ![k] = "dl_http"]
                    /\ files' = [files EXCEPT ![k] = "empty"]
                    /\ opened' = opened \cup {k}
               ELSE /\ pc' = [pc EXCEPT ![k] = "dl_acq"]
                    /\ UNCHANGED <<files, opened>>

FirstWithToken(envs) ==
    IF \E i \in DOMAIN envs : HasToken(envs[i])
    THEN CHOOSE i \in DOMAIN envs :
            HasToken(envs[i]) /\ \A j \in 1..(i - 1) : ~HasToken(envs[j])
    ELSE 0

\* get_release, lines 370-405: the loop over envs_to_check from its next iteration
\* to the first suspension (a releases request) or to the end (no matching release)
Probe(k, envs, q, st) ==
    LET i == FirstWithToken(envs)
        skipped == IF i = 0 THEN envs # <<>> ELSE i > 1
        lock1 == IF skipped /\ Prev(k) # None
                 THEN Put(next_version_lock, k, Prev(k)) ELSE next_version_lock
    IN
    /\ UNCHANGED <<files, opened>>
    /\ IF i # 0
       THEN LET h == StudioHost(envs[i]) IN
            /\ attempt' = [attempt EXCEPT ![k] = 1]
            /\ dep' = [dep EXCEPT ![k].studio_env = envs[i],
                                  ![k].envs = SubSeq(envs, i + 1, Len(envs))]
            /\ next_version_lock' = lock1
            /\ stats' = st
            /\ queue' = TakePermit(q, h)
            /\ pc' = [pc EXCEPT ![k] = AfterGet(q, h)]
       ELSE /\ dep' = [dep EXCEPT ![k] = NoDep]
            /\ attempt' = [attempt EXCEPT ![k] = 0]
            /\ next_version_lock' = IF Prev(k) # None THEN Put(lock1, k, Prev(k)) ELSE lock1
            /\ stats' = [st EXCEPT
                           !.fetch_release_with_existing_app_failed =
                               IF Prev(k) # None THEN @ \cup {k} ELSE @,
                           !.no_matching_releases = @ \cup {k}]
            /\ queue' = q
            /\ pc' = [pc EXCEPT ![k] = "done"]

\* get_release, lines 367-369
envs_to_check(k) == IF Prev(k) # None THEN <<Prev(k).studio_env>> ELSE KeyEnvs

\* (a variant of up_to_date, for mutation: the version compared with the commit)
up_to_date_commit(k) ==
    Prev(k) # None /\ Prev(k).status = "success" /\ dep[k].version = Prev(k).commit_sha

\* get_release, lines 360-361
up_to_date(k) ==
    Prev(k) # None /\ Prev(k).status = "success" /\ dep[k].version = Prev(k).version

\* update_deployment -> get_release, lines 334-369, then the loop or update_repository.
\* The tasks of a gather take their first step in any order here; asyncio starts
\* them in list order, which is one of these orders.
DeploymentStart(k) ==
    /\ pc[k] = "new"
    /\ k \notin must_cancel
    /\ UNCHANGED <<analysis, run, remote, keys, retry_failed, prev_version_lock, lock_file, must_cancel, deployed,
                   cancelled, faults>>
    /\ CASE Prev(k) # None /\ Prev(k).status = "failed" /\ ~retry_failed ->
              /\ stats' = [stats EXCEPT !.skipped_releases_failure = @ \cup {k}]
              /\ next_version_lock' = Put(next_version_lock, k, Prev(k))
              /\ pc' = [pc EXCEPT ![k] = "done"]
              /\ dep' = [dep EXCEPT ![k] = NoDep]
              /\ UNCHANGED <<files, opened, queue, attempt>>
         [] Prev(k) # None /\ Prev(k).status = "failed" /\ retry_failed
               /\ dep[k].version = Prev(k).version ->
              update_repository(k, Prev(k).studio_env, Prev(k).commit_sha, queue, stats)
         [] up_to_date(k) ->
              /\ stats' = [stats EXCEPT !.already_up_to_date_releases = @ \cup {k}]
              /\ next_version_lock' = Put(next_version_lock, k, Prev(k))
              /\ pc' = [pc EXCEPT ![k] = "done"]
              /\ dep' = [dep EXCEPT ![k] = NoDep]
              /\ UNCHANGED <<files, opened, queue, attempt>>
         [] OTHER -> Probe(k, envs_to_check(k), queue, stats)

\* fetch_release, lines 326-327, and get_release, lines 382-392: the releases
\* document arrives, with or without a release tagged with the deployed version
FetchReleaseOk(k, found) ==
    /\ pc[k] = "http"
    /\ k \notin must_cancel
    /\ Allowed(RelReq(k, dep[k].studio_env), {found})
    /\ remote' = Record(RelReq(k, dep[k].studio_env), {found})
    /\ UNCHANGED <<analysis, run, keys, retry_failed, prev_version_lock, lock_file, must_cancel, deployed,
                   cancelled, faults>>
    /\ IF found
       THEN update_repository(k, dep[k].studio_env, TargetCommitish(dep[k].version),
                              PutPermits(queue, HostOf(k), attempt[k]), stats)
       ELSE Probe(k, dep[k].envs, PutPermits(queue, HostOf(k), attempt[k]), stats)

\* fetch_release, lines 328-331: the request raised; the loop continues
FetchReleaseFail(k) ==
    /\ IF k \in must_cancel
       THEN pc[k] \in {"acq", "http", "sleep"} /\ UNCHANGED <<faults, remote>>
       ELSE /\ pc[k] = "http"
            /\ Fault(RelReq(k, dep[k].studio_env))
            /\ Allowed(RelReq(k, dep[k].studio_env), {})
            /\ remote' = Record(RelReq(k, dep[k].studio_env), {})
    /\ must_cancel' = must_cancel \ {k}
    /\ UNCHANGED <<analysis, run, keys, retry_failed, prev_version_lock, lock_file, deployed, cancelled>>
    /\ Probe(k, dep[k].envs, PutPermits(queue, HostOf(k), Held(k)), stats)

\* download_file, lines 111-119: a task blocked in request_queue gets its permit,
\* opens the file and sends the request
DownloadAcquire(k) ==
    /\ pc[k] = "dl_acq"
    /\ k \notin must_cancel
    /\ queue[HostOf(k)] > 0
    /\ queue' = TakePermit(queue, HostOf(k))
    /\ pc' = [pc EXCEPT ![k] = "dl_http"]
    /\ files' = [files EXCEPT ![k] = "empty"]
    /\ opened' = opened \cup {k}
    /\ UNCHANGED <<analysis, run, remote, keys, retry_failed, prev_version_lock, next_version_lock, lock_file, attempt,
                   must_cancel, dep, deployed, stats, cancelled, faults>>

\* get_release, lines 351-358 and 385-392: the Release of deployment task k
Release(k) ==
    [env |-> k[1], org |-> k[2], app |-> k[3], version |-> dep[k].version,
     commit_sha |-> dep[k].commit_sha, studio_env |-> dep[k].studio_env]

\* update_repository, lines 490-491 and 498: download_file returned
DownloadSucceeded(k, q, file) ==
    /\ queue' = q
    /\ files' = [files EXCEPT ![k] = file]
    /\ stats' = [stats EXCEPT !.download_success = @ \cup {k}]
    /\ next_version_lock' =
          Put(next_version_lock, release_key(Release(k)), makeLock(Release(k), "success"))
    /\ pc' = [pc EXCEPT ![k] = "done"]
    /\ dep' = [dep EXCEPT ![k] = NoDep]
    /\ attempt' = [attempt EXCEPT ![k] = 0]

\* update_repository, lines 492-498: download_file raised; the file is removed
DownloadFailed(k, q) ==
    /\ queue' = q
    /\ files' = [files EXCEPT ![k] = "absent"]
    /\ stats' = [stats EXCEPT !.download_failed = @ \cup {k}]
    /\ next_version_lock' =
          Put(next_version_lock, release_key(Release(k)), makeLock(Release(k), "failed"))
    /\ pc' = [pc EXCEPT ![k] = "done"]
    /\ dep' = [dep EXCEPT ![k] = NoDep]
    /\ attempt' = [attempt EXCEPT ![k] = 0]

ArchiveResponses == {"200", "404", "500", "error"}

\* download_file, lines 120-138, on the response to the archive request:
\*   200   the body starts to stream: the first chunk is written;
\*   404   raise_for_status raises, and line 133 re-raises;
\*   500   raise_for_status raises; attempt 1 < max_retries, so line 138 returns the
\*         coroutine of the retry without awaiting it: download_file returns normally
\*         and nothing has been written to the file;
\*   error a transport error (timeout, reset), which line 130 does not catch.
DownloadRespond(k, r) ==
    /\ pc[k] = "dl_http"
    /\ k \notin must_cancel
    /\ IF r = "200" THEN faults' = faults ELSE Fault(DlReq(k, dep[k].studio_env))
    /\ Replays(DlReq(k, dep[k].studio_env)) =>
          \/ remote.answer[DlReq(k, dep[k].studio_env)] = {r}
          \/ r = "200" /\ remote.answer[DlReq(k, dep[k].studio_env)] = {"abort"}
    /\ remote' = Record(DlReq(k, dep[k].studio_env), {r})
    /\ UNCHANGED <<analysis, run, keys, retry_failed, prev_version_lock, lock_file, opened, must_cancel,
                   deployed, cancelled>>
    /\ CASE r = "200" ->
              /\ pc' = [pc EXCEPT ![k] = "dl_stream"]
              /\ files' = [files EXCEPT ![k] = "partial"]
              /\ UNCHANGED <<queue, stats, next_version_lock, attempt, dep>>
         [] r = "500" /\ attempt[k] < max_retries ->
              DownloadSucceeded(k, PutPermits(queue, HostOf(k), 1), files[k])
         [] OTHER -> DownloadFailed(k, PutPermits(queue, HostOf(k), 1))

\* download_file, lines 125-128: the last chunk is written; the file is closed
DownloadFinish(k) ==
    /\ pc[k] = "dl_stream"
    /\ k \notin must_cancel
    /\ Allowed(DlReq(k, dep[k].studio_env), {"200"})
    /\ UNCHANGED <<analysis, run, remote, keys, retry_failed, prev_version_lock, lock_file, opened, must_cancel,
                   deployed, cancelled, faults>>
    /\ DownloadSucceeded(k, PutPermits(queue, HostOf(k), 1), "complete")

\* download_file raises in the middle: a read error while streaming, or the
\* CancelledError thrown into the task at any of its awaits
DownloadAbort(k) ==
    /\ IF k \in must_cancel
       THEN pc[k] \in {"dl_acq", "dl_http", "dl_stream"} /\ UNCHANGED <<faults, remote>>
       ELSE /\ pc[k] = "dl_stream"
            /\ Fault(DlReq(k, dep[k].studio_env))
            /\ Allowed(DlReq(k, dep[k].studio_env), {"abort"})
            /\ remote' = Record(DlReq(k, dep[k].studio_env), {"abort"})
    /\ must_cancel' = must_cancel \ {k}
    /\ UNCHANGED <<analysis, run, keys, retry_failed, prev_version_lock, lock_file, opened, deployed,
                   cancelled>>
    /\ DownloadFailed(k, PutPermits(queue, HostOf(k), Held(k)))

\* ------------------------------------------------------------------ Next
Next ==
    \/ UpdateAppsStart
    \/ \E doc \in OrgsDocs : FetchOrgsOk(doc)
    \/ FetchOrgsFail
    \/ \E t \in Tasks : Acquire(t)
    \/ \E t \in Tasks : ReadTimeout(t)
    \/ \E t \in Tasks : Retry(t)
    \/ \E c \in Clusters : ClusterStart(c)
    \/ \E c \in Clusters : \E r \in RawResponses(c) : FetchDeploymentsOk(c, r)
    \/ \E c \in Clusters : FetchDeploymentsFail(c)
    \/ \E c \in Clusters : ClusterDone(c)
    \/ \E k \in Keys : DeploymentStart(k)
    \/ \E k \in Keys : \E found \in BOOLEAN : FetchReleaseOk(k, found)
    \/ \E k \in Keys : FetchReleaseFail(k)
    \/ \E k \in Keys : DownloadAcquire(k)
    \/ \E k \in Keys : \E r \in ArchiveResponses : DownloadRespond(k, r)
    \/ \E k \in Keys : DownloadFinish(k)
    \/ \E k \in Keys : DownloadAbort(k)
    \/ GatherDone
    \/ remove_undeployed_apps
    \/ WriteOpen
    \/ WriteDump
    \/ WriteClose
    \/ Crash

Spec == Init /\ [][Next]_vars

\* the program run a second time, on the lock file and the archives the first run left
SecondRun ==
    /\ run = 1
    /\ remote.on
    /\ pc[MainTask] = "done"
    /\ run' = 2
    /\ prev_version_lock' = lock_file.entries
    /\ next_version_lock' = <<>>
    /\ opened' = {}
    /\ pc' = [t \in Tasks |-> IF t = MainTask THEN "new" ELSE "idle"]
    /\ deployed' = [c \in Clusters |-> {}]
    /\ stats' = NoStats
    /\ UNCHANGED <<analysis, remote, keys, retry_failed, lock_file, files, queue, attempt, must_cancel,
                   dep, cancelled, faults>>

InitTwoRuns ==
    Start /\ remote = NoRemote(TRUE) /\ Len(prev_version_lock) <= 1 /\ NoAnalysis
NextTwoRuns ==
    \/ Next
    \/ SecondRun
SpecTwoRuns == InitTwoRuns /\ [][NextTwoRuns]_vars

\* the run with an interrupt
InitCancel == Init /\ Len(prev_version_lock) <= 1
NextCancel ==
    \/ Next
    \/ Cancel
    \/ \E t \in Tasks : CancelNew(t)
SpecCancel == InitCancel /\ [][NextCancel]_vars

\* update_cluster, line 463: the gather raises the exception of one of its tasks as
\* soon as that task ends with it; update_cluster ends with the exception
ClusterRaise(c) ==
    /\ pc[ClusterTask(c)] = "gather"
    /\ \E k \in Keys : ClusterOf(k) = c /\ pc[k] = "raised"
    /\ pc' = [pc EXCEPT ![ClusterTask(c)] = "raised"]
    /\ UNCHANGED <<analysis, run, remote, keys, retry_failed, prev_version_lock, next_version_lock, lock_file, files,
                   opened, queue, attempt, must_cancel, dep, deployed, stats, cancelled,
                   faults>>

\* update_apps, line 415: the gather raises the exception of an update_cluster task;
\* it leaves update_apps before lines 422-423
UpdateAppsRaise ==
    /\ pc[MainTask] = "gather"
    /\ \E t \in ClusterTasks : pc[t] = "raised"
    /\ pc' = [pc EXCEPT ![MainTask] = "raised"]
    /\ UNCHANGED <<analysis, run, remote, keys, retry_failed, prev_version_lock, next_version_lock, lock_file, files,
                   opened, queue, attempt, must_cancel, dep, deployed, stats, cancelled,
                   faults>>

\* the run on a key file with one or two tokens and a lock file of at most one entry,
\* for the first app in prod, that names any studio environment
NextKeys ==
    \/ Next
    \/ \E c \in Clusters : ClusterRaise(c)
    \/ UpdateAppsRaise
InitKeys ==
    /\ Boot(KeyFiles,
            {<<>>} \cup { <<[key |-> k, data |-> LockData(k, "1", "c1", s, se)]>>
                          : k \in {KeyOrder[1]}, s \in {"success", "failed"},
                            se \in StudioEnvs },
            MaxConcurrent, 0)
    /\ remote = NoRemote(FALSE)
    /\ NoAnalysis
SpecKeys == InitKeys /\ [][NextKeys]_vars

\* stages 1 and 2 of a run with the default permits, where max_retries requests may fail
NextFetch ==
    \/ UpdateAppsStart
    \/ \E doc \in OrgsDocs : FetchOrgsOk(doc)
    \/ FetchOrgsFail
    \/ \E t \in Tasks : ReadTimeout(t)
    \/ \E t \in Tasks : Retry(t)
    \/ \E c \in Clusters : ClusterStart(c)
    \/ \E c \in Clusters : \E r \in RawResponses(c) : FetchDeploymentsOk(c, r)
    \/ \E c \in Clusters : FetchDeploymentsFail(c)
InitFetch ==
    /\ Boot({KeyFile}, PrevLocks, max_concurrent_requests_per_domain, MaxFaults - max_retries)
    /\ remote = NoRemote(FALSE)
    /\ NoAnalysis
SpecFetch == InitFetch /\ [][NextFetch]_vars

\* ---------------------------------------------------------------- claims
\* the keys the deployments endpoints reported in this run, and their versions
DeployedKeys ==
    UNION { {d.k : d \in get_deployments(c, deployed[c])} : c \in Clusters }
DeployedVersion(k) ==
    (CHOOSE d \in get_deployments(ClusterOf(k), deployed[ClusterOf(k)]) : d.k = k).version
Completed == pc[MainTask] = "done"

\* C1: at the moment update_apps writes the new lock file, every entry of it with
\* status success has an archive on disk that was streamed to the end.
C1_SuccessMeansCompleteArchive ==
    pc[MainTask] \in {"write", "dump", "done"} =>
        \A i \in DOMAIN next_version_lock :
            next_version_lock[i].data.status = "success"
                => files[next_version_lock[i].key] = "complete"

\* C2: after a completed run, no archive is left for a key of the previous lock that
\* is not in the new lock.
C2_UndeployedArchivesRemoved ==
    Completed =>
        \A k \in LockKeys(prev_version_lock) :
            ~Has(next_version_lock, k) => files[k] = "absent"

C2_Witness ==
    /\ Completed
    /\ \E k \in stats.apps_removed : Prev(k).status = "success" /\ files[k] = "absent"

\* C3: the lock being built only has keys of the previous lock and keys a deployments
\* endpoint reported in this run.
C3_NoForeignKeys ==
    LockKeys(next_version_lock) \subseteq LockKeys(prev_version_lock) \cup DeployedKeys

C3_Witness ==
    /\ \E k \in LockKeys(next_version_lock) :
          k \in DeployedKeys /\ k \notin LockKeys(prev_version_lock)
    /\ \E k \in LockKeys(next_version_lock) :
          k \in LockKeys(prev_version_lock) /\ k \notin DeployedKeys

\* C4: after a completed run, for every cluster whose deployments were fetched: an app
\* of the previous lock that is no longer deployed has no entry and no archive; an
\* unchanged app with a success entry keeps that entry and its archive, untouched; a
\* newly deployed app that was resolved has an entry for the deployed version and its
\* commit, was downloaded, and has an archive exactly when the entry is not failed;
\* one that was not resolved has no entry and no archive.
C4_RunReconcilesFleet ==
    Completed =>
        \A k \in Keys :
            deployed[ClusterOf(k)] # {} =>
                /\ (Prev(k) # None /\ k \notin DeployedKeys) =>
                       /\ ~Has(next_version_lock, k)
                       /\ ~Has(lock_file.entries, k)
                       /\ files[k] = "absent"
                /\ (Prev(k).status = "success" /\ k \in DeployedKeys
                      /\ DeployedVersion(k) = Prev(k).version) =>
                       /\ Get(next_version_lock, k) = Prev(k)
                       /\ Get(lock_file.entries, k) = Prev(k)
                       /\ files[k] = "complete"
                       /\ k \notin opened
                /\ (Prev(k) = None /\ k \in DeployedKeys) =>
                       IF Has(next_version_lock, k)
                       THEN LET e == Get(next_version_lock, k) IN
                            /\ e.version = DeployedVersion(k)
                            /\ e.commit_sha = TargetCommitish(DeployedVersion(k))
                            /\ HasToken(e.studio_env)
                            /\ Get(lock_file.entries, k) = e
                            /\ k \in opened
                            /\ (e.status = "failed") <=> (files[k] = "absent")
                       ELSE /\ k \in stats.no_matching_releases
                            /\ k \notin opened
                            /\ files[k] = "absent"

C4_Witness ==
    /\ Completed
    /\ \E kx \in Keys, ky \in Keys, kz \in Keys :
          /\ ClusterOf(kx) = ClusterOf(ky)
          /\ Prev(kx).status = "success" /\ kx \in stats.already_up_to_date_releases
          /\ Prev(ky).status = "success" /\ ky \in stats.apps_removed
          /\ deployed[ClusterOf(ky)] # {}
          /\ Prev(kz) = None /\ kz \in stats.download_success /\ files[kz] = "complete"
          /\ Get(lock_file.entries, kz).status = "success"

\* C7: the lock file on disk is at every moment the complete previous lock or the
\* complete new lock.
C7_LockFileNeverTorn ==
    /\ lock_file.valid
    /\ lock_file.entries = prev_version_lock \/ lock_file.entries = next_version_lock

\* C8: the requests in flight to one host never exceed the configured maximum per host.
C8_AtMostMaxConcurrentPerHost ==
    \A h \in Hosts : Cardinality(InFlight(h)) <= MaxConcurrent

C8_Witness ==
    \E h \in Hosts :
        /\ Cardinality(InFlight(h)) = MaxConcurrent
        /\ \E t \in Tasks : HostOf(t) = h /\ pc[t] \in {"acq", "dl_acq"}

\* C9: after a completed run, for every cluster whose deployments request failed:
\* each entry the previous lock had for the cluster is in the new lock and in the
\* lock file unchanged, with its archive; the cluster has no other entry; and the
\* cluster is in the warning list when it had success entries.
C9_FailedClusterCarriedOver ==
    Completed =>
        \A c \in stats.fetch_deployments_failed :
            /\ \A k \in Keys :
                  ClusterOf(k) = c =>
                      /\ Get(next_version_lock, k) = Prev(k)
                      /\ Get(lock_file.entries, k) = Prev(k)
                      /\ Prev(k).status = "success" => files[k] = "complete"
            /\ (\E k \in Keys : ClusterOf(k) = c /\ Prev(k).status = "success")
                  => c \in stats.fetch_deployments_with_existing_apps_failed

C9_Witness ==
    /\ Completed
    /\ \E c \in stats.fetch_deployments_failed :
          /\ \E k \in Keys : ClusterOf(k) = c /\ Prev(k).status = "success"
          /\ \E k \in Keys : ClusterOf(k) # c /\ k \in DeployedKeys

\* C10: after a completed run in which the orgs document could not be fetched, every
\* entry of the previous lock is in the new lock and in the lock file, and no archive
\* was removed.
C10_OrgsFailureKeepsFleet ==
    (Completed /\ stats.fetch_orgs_failed) =>
        \A k \in LockKeys(prev_version_lock) :
            /\ Get(next_version_lock, k) = Prev(k)
            /\ Get(lock_file.entries, k) = Prev(k)
            /\ Prev(k).status = "success" => files[k] = "complete"

\* C6: when update_apps was cancelled with downloads in flight, none of their archives
\* is left, their entries are failed, and the lock file holds the lock built so far.
C6_CancelledRunWritesLock ==
    (pc[MainTask] = "cancelled" /\ faults = 0 /\ stats.download_failed # {}) =>
        /\ \A k \in stats.download_failed :
              files[k] = "absent" /\ Get(next_version_lock, k).status = "failed"
        /\ lock_file = [entries |-> next_version_lock, valid |-> TRUE]

Digits == <<"0", "1", "2", "3", "4", "5", "6", "7", "8", "9">>
IsDigit(ch) == \E d \in DOMAIN Digits : Digits[d] = ch

\* int(value) for a str of digits
RECURSIVE int(_)
int(str) ==
    IF str = <<>> THEN 0
    ELSE 10 * int(SubSeq(str, 1, Len(str) - 1))
         + (CHOOSE d \in DOMAIN Digits : Digits[d] = str[Len(str)]) - 1

NullableInt(value) == IF value = <<>> THEN -1 ELSE int(value)
NullableInt_eq(self, other) == self = other
NullableInt_lt(self, other) == IF self = -1 \/ other = -1 THEN FALSE ELSE self < other
NullableInt_gt(self, other) == IF self = -1 \/ other = -1 THEN FALSE ELSE self > other
\* `x is None` for an attribute that holds a NullableInt object: never the None object
NullableInt_is_None(obj) == FALSE

\* the lengths of the runs of digits (\d+) that start at a position
DigitRuns(str, from) ==
    { n \in 1..(Len(str) - from + 1) : \A i \in from..(from + n - 1) : IsDigit(str[i]) }
\* VERSION_REGEX = ^(\d+)(.(\d+))?(.(\d+))?(-(.+))?$ : the ways the string matches,
\* as the lengths of groups 1, 3, 5 and 7 (0 for an optional group that is skipped);
\* the unescaped dot matches any character
Matches(str) ==
    UNION { UNION { UNION {
        { [g1 |-> g1, g3 |-> g3, g5 |-> g5, g7 |-> g7] :
            g7 \in { n \in 0..Len(str) :
                       LET e3 == IF g3 = 0 THEN g1 ELSE g1 + 1 + g3
                           e5 == IF g5 = 0 THEN e3 ELSE e3 + 1 + g5
                       IN  IF n = 0 THEN e5 = Len(str)
                           ELSE e5 + 1 + n = Len(str) /\ str[e5 + 1] = "-" } }
        : g5 \in {0} \cup DigitRuns(str, (IF g3 = 0 THEN g1 ELSE g1 + 1 + g3) + 2) }
        : g3 \in {0} \cup DigitRuns(str, g1 + 2) }
        : g1 \in DigitRuns(str, 1) }
\* re.match: the first match in the order of the backtracking search; every
\* quantifier is greedy, so this is the match with the longest groups, leftmost first
FirstMatch(ms) ==
    CHOOSE m \in ms : \A n \in ms \ {m} :
        \/ m.g1 > n.g1
        \/ m.g1 = n.g1 /\ m.g3 > n.g3
        \/ m.g1 = n.g1 /\ m.g3 = n.g3 /\ m.g5 > n.g5
        \/ m.g1 = n.g1 /\ m.g3 = n.g3 /\ m.g5 = n.g5 /\ m.g7 > n.g7
\* match.group(n) for n = 1, 3, 5, 7
Group(str, m, n) ==
    LET e3 == IF m.g3 = 0 THEN m.g1 ELSE m.g1 + 1 + m.g3
        e5 == IF m.g5 = 0 THEN e3 ELSE e3 + 1 + m.g5
    IN  CASE n = 1 -> SubSeq(str, 1, m.g1)
          [] n = 3 -> IF m.g3 = 0 THEN <<>> ELSE SubSeq(str, m.g1 + 2, e3)
          [] n = 5 -> IF m.g5 = 0 THEN <<>> ELSE SubSeq(str, e3 + 2, e5)
          [] n = 7 -> IF m.g7 = 0 THEN <<>> ELSE SubSeq(str, e5 + 2, Len(str))

\* Version.__init__: the object with its fields (has_string: version_string is not None)
Version(version_string, has_string) ==
    CHOOSE self \in
      { IF ms = {}
        THEN [version_string |-> version_string, has_string |-> has_string, exists |-> FALSE,
              major |-> NullableInt(<<>>), minor |-> NullableInt(<<>>),
              patch |-> NullableInt(<<>>), preview |-> <<>>]
        ELSE [version_string |-> version_string, has_string |-> TRUE, exists |-> TRUE,
              major |-> NullableInt(Group(version_string, FirstMatch(ms), 1)),
              minor |-> NullableInt(Group(version_string, FirstMatch(ms), 3)),
              patch |-> NullableInt(Group(version_string, FirstMatch(ms), 5)),
              preview |-> Group(version_string, FirstMatch(ms), 7)]
        : ms \in { IF has_string THEN Matches(version_string) ELSE {} } }
    : TRUE

\* the right operand as it is passed: a Version, a str, or something else
Operand(type, version) ==
    IF type = "str" /\ ~version.has_string THEN [value |-> version, type |-> "NoneType"]
    ELSE [value |-> version, type |-> type]
\* other = other_version if isinstance(other_version, Version)
\*         else Version(other_version) if type(other_version) == str else None
Other(other_version) ==
    IF other_version.type = "str" THEN Version(other_version.value.version_string, TRUE)
    ELSE other_version.value
\* not (not self.exists or other is None or not other.exists)
Comparable(self, other_version, other) ==
    /\ self.exists
    /\ other_version.type \in {"Version", "str"}
    /\ other.exists

Version_eq(self, other_version) ==
    \E other \in {Other(other_version)} :
        IF ~Comparable(self, other_version, other) THEN FALSE
        ELSE self.version_string = other.version_string

\* (a variant of Version_ne, for mutation: plain string inequality)
Version_ne_str(self, other_version) ==
    \E other \in {Other(other_version)} : self.version_string # other.version_string
Version_ne(self, other_version) ==
    \E other \in {Other(other_version)} :
        IF ~Comparable(self, other_version, other) THEN FALSE
        ELSE self.version_string # other.version_string

\* (a variant of Version_lt, for mutation: any two different previews compare as less)
Version_lt_any_preview(self, other_version) ==
    \E other \in {Other(other_version)} :
        IF ~Comparable(self, other_version, other) THEN FALSE
        ELSE IF self.major # other.major THEN self.major < other.major
        ELSE IF self.minor # other.minor THEN NullableInt_lt(self.minor, other.minor)
        ELSE IF self.patch # other.patch THEN NullableInt_lt(self.patch, other.patch)
        ELSE self.preview # other.preview
Version_lt(self, other_version) ==
    \E other \in {Other(other_version)} :
        IF ~Comparable(self, other_version, other) THEN FALSE
        ELSE IF NullableInt_is_None(self.major) \/ NullableInt_is_None(other.major) THEN FALSE
        ELSE IF ~NullableInt_eq(self.major, other.major)
             THEN NullableInt_lt(self.major, other.major)
        ELSE IF ~NullableInt_eq(self.minor, other.minor)
             THEN IF NullableInt_is_None(self.minor) THEN FALSE
                  ELSE IF NullableInt_is_None(other.minor) THEN TRUE
                  ELSE NullableInt_lt(self.minor, other.minor)
        ELSE IF ~NullableInt_eq(self.patch, other.patch)
             THEN IF NullableInt_is_None(self.patch) THEN FALSE
                  ELSE IF NullableInt_is_None(other.patch) THEN TRUE
                  ELSE NullableInt_lt(self.patch, other.patch)
        ELSE IF self.preview # other.preview
             THEN IF self.preview = <<>> THEN TRUE
                  ELSE FALSE
        ELSE FALSE

Version_gt(self, other_version) ==
    \E other \in {Other(other_version)} :
        IF ~Comparable(self, other_version, other) THEN FALSE
        ELSE IF NullableInt_is_None(self.major) \/ NullableInt_is_None(other.major) THEN FALSE
        ELSE IF ~NullableInt_eq(self.major, other.major)
             THEN NullableInt_gt(self.major, other.major)
        ELSE IF ~NullableInt_eq(self.minor, other.minor)
             THEN IF NullableInt_is_None(self.minor) THEN TRUE
                  ELSE IF NullableInt_is_None(other.minor) THEN FALSE
                  ELSE NullableInt_gt(self.minor, other.minor)
        ELSE IF ~NullableInt_eq(self.patch, other.patch)
             THEN IF NullableInt_is_None(self.patch) THEN TRUE
                  ELSE IF NullableInt_is_None(other.patch) THEN FALSE
                  ELSE NullableInt_gt(self.patch, other.patch)
        ELSE IF self.preview # other.preview
             THEN IF self.preview = <<>> THEN FALSE
                  ELSE IF other.preview = <<>> THEN TRUE
                  ELSE FALSE
        ELSE FALSE

\* inside __le__ and __ge__ the right operand of == and < is `other`, a Version
Version_le(self, other_version) ==
    \E other \in {Other(other_version)} :
        IF ~Comparable(self, other_version, other) THEN FALSE
        ELSE \/ Version_eq(self, Operand("Version", other))
             \/ Version_lt(self, Operand("Version", other))
Version_ge(self, other_version) ==
    \E other \in {Other(other_version)} :
        IF ~Comparable(self, other_version, other) THEN FALSE
        ELSE \/ Version_eq(self, Operand("Version", other))
             \/ Version_gt(self, Operand("Version", other))

\* ------------------------------------------------- the versions compared
VersionStrings ==
    { major \o minor \o patch \o preview :
        major \in { <<"4">>, <<"5">> },
        minor \in { <<>>, <<".", "2">>, <<".", "1", "8">> },
        patch \in { <<>>, <<".", "0">> },
        preview \in { <<>>, <<"-", "r", "c">>, <<"-", "b">> } }
      \cup { <<>>, <<"v", "4">>, <<"4", ".">>, <<"4", ".", "1", ".", "0", ".", "2">> }
VersionObjects == { Version(str, TRUE) : str \in VersionStrings } \cup { Version(<<>>, FALSE) }

Comparisons(self, other_version) ==
    [ eq |-> Version_eq(self, other_version), ne |-> Version_ne(self, other_version),
      lt |-> Version_lt(self, other_version), le |-> Version_le(self, other_version),
      gt |-> Version_gt(self, other_version), ge |-> Version_ge(self, other_version) ]
NotCompared == [ eq |-> FALSE, ne |-> FALSE, lt |-> FALSE, le |-> FALSE, gt |-> FALSE, ge |-> FALSE ]

\* no update of the fleet is running
FleetIdle ==
    /\ Start /\ remote = NoRemote(FALSE) /\ ~retry_failed /\ prev_version_lock = <<>>
    /\ gathered = <<>>

InitVersion ==
    /\ FleetIdle
    /\ app = <<>> /\ query = <<>> /\ containers = <<>>
    /\ \E a \in VersionObjects :
         versions = [ c |-> a, a |-> a, b |-> a, type |-> "Version", compared |-> "no",
                      ab |-> NotCompared, ba |-> NotCompared,
                      bc |-> NotCompared, ac |-> NotCompared ]

\* a evaluated against b, passed as a Version, a str or an int
Compare(type) ==
    /\ versions.compared = "no"
    /\ \E b \in VersionObjects :
         versions' = [ versions EXCEPT
           !.compared = "pair",
           !.b = b,
           !.type = type,
           !.ab = Comparisons(versions.a, Operand(type, b)) ]
    /\ UNCHANGED <<fleet, gathered, app, query, containers>>

\* the pairs of a chain of three Version objects
CompareChain ==
    /\ versions.compared = "no"
    /\ \E b \in VersionObjects, c \in VersionObjects :
         versions' = [ versions EXCEPT
           !.compared = "chain",
           !.b = b,
           !.c = c,
           !.ab = Comparisons(versions.a, Operand("Version", b)),
           !.ba = Comparisons(b, Operand("Version", versions.a)),
           !.bc = Comparisons(b, Operand("Version", c)),
           !.ac = Comparisons(versions.a, Operand("Version", c)) ]
    /\ UNCHANGED <<fleet, gathered, app, query, containers>>

NextVersion ==
    \/ \E type \in {"Version", "str", "int"} : Compare(type)
    \/ CompareChain
SpecVersion == InitVersion /\ [][NextVersion]_vars

\* the operands were parsed, and a lacks the component after their common prefix
LacksNext(a, b) ==
    /\ a.exists /\ b.exists /\ a.major = b.major
    /\ \/ a.minor = -1 /\ b.minor # -1
       \/ a.minor = b.minor /\ a.patch = -1 /\ b.patch # -1
       \/ a.minor = b.minor /\ a.patch = b.patch /\ a.preview = <<>> /\ b.preview # <<>>

\* C18: of two versions equal up to a component, the one lacking the next minor, patch
\* or preview is the greater: a > b is true and b < a is true
C18_MissingComponentGreater ==
    (versions.compared = "chain" /\ LacksNext(versions.a, versions.b))
        => versions.ab.gt /\ versions.ba.lt

\* C19: on parseable versions < and > are antisymmetric (never a < b and b < a) and
\* transitive (a < b and b < c give a < c)
C19_OrderAntisymmetricTransitive ==
    (versions.compared = "chain" /\ versions.a.exists /\ versions.b.exists /\ versions.c.exists)
        => /\ ~(versions.ab.lt /\ versions.ba.lt)
           /\ ~(versions.ab.gt /\ versions.ba.gt)
           /\ (versions.ab.lt /\ versions.bc.lt) => versions.ac.lt
           /\ (versions.ab.gt /\ versions.bc.gt) => versions.ac.gt
\* a chain a < b < c of three parsed versions was compared
C19_Witness ==
    /\ versions.compared = "chain"
    /\ versions.a.exists /\ versions.b.exists /\ versions.c.exists
    /\ versions.ab.lt /\ versions.bc.lt /\ versions.ac.lt
    /\ versions.ba.gt

\* C20: every comparison operator returns false when either operand is an unparseable
\* version (built from None or from a string that does not match) or not a string
C20_ComparisonsFailSoft ==
    (/\ versions.compared = "pair"
     /\ \/ ~versions.a.exists
        \/ ~versions.b.exists
        \/ versions.type = "int")
        => versions.ab = NotCompared
\* a parsed version was compared with an operand that is not one, and one with a str
C20_Witness ==
    /\ versions.compared = "pair"
    /\ versions.a.exists
    /\ versions.a.version_string # versions.b.version_string
    /\ \/ versions.type = "str" /\ versions.b.has_string /\ ~versions.b.exists
       \/ versions.type = "int"

\* =========================================================== apps.py: class App
MaxSessions == 2
MaxHandles == 4

\* the value of an attribute that was never assigned, of self.open and of a handle
Unset == "unset"
NoHandle == 0

\* a handle that lost its last reference is closed by its finalizer
Dropped(handles, h) ==
    [ i \in DOMAIN handles |-> IF i = h THEN [handles[i] EXCEPT !.open = FALSE] ELSE handles[i] ]

\* the property App.content: the App afterwards, and whether the read raised
content(self) ==
    IF self.open # "True" THEN [self |-> self, raised |-> TRUE]
    ELSE IF self.zip_file # NoHandle THEN [self |-> self, raised |-> FALSE]
    ELSE IF self.archive = "missing" THEN [self |-> self, raised |-> TRUE]
    ELSE LET file == Len(self.handles) + 1
             opened_file == [self EXCEPT
                 !.file = file,
                 !.handles = Append(Dropped(@, self.file), [open |-> TRUE, kind |-> "file"])]
         IN  IF self.archive = "corrupt" THEN [self |-> opened_file, raised |-> TRUE]
             ELSE [self |-> [opened_file EXCEPT
                               !.zip_file = file + 1,
                               !.handles = Append(@, [open |-> TRUE, kind |-> "zip"])],
                   raised |-> FALSE]

\* (a variant of exit, for mutation: the file is closed together with the zip only)
exit_with_zip_only(self) ==
    IF self.zip_file # NoHandle
    THEN [self EXCEPT !.open = "False", !.zip_file = NoHandle, !.file = NoHandle,
                      !.handles = Dropped(Dropped(@, self.zip_file), self.file)]
    ELSE [self EXCEPT !.open = "False", !.file = NoHandle]
\* App.__exit__
exit(self) ==
    [self EXCEPT !.open = "False", !.zip_file = NoHandle, !.file = NoHandle,
                 !.handles = Dropped(Dropped(@, self.zip_file), self.file)]

\* App.__init__ for an entry of the lock file; the archive {key}.zip behind it
InitApp ==
    /\ FleetIdle
    /\ versions = <<>> /\ query = <<>> /\ containers = <<>>
    /\ \E archive \in {"valid", "corrupt", "missing"} :
         app = [ data |-> "{}", files |-> Unset, file |-> NoHandle, handles |-> <<>>,
                 open |-> Unset, zip_file |-> NoHandle, archive |-> archive,
                 inside |-> FALSE, others |-> 0, sessions |-> 0,
                 last |-> [raised |-> FALSE, inside |-> FALSE, op |-> "init"] ]

\* `with app as open_app:` of wrap_open_app
Enter ==
    /\ ~app.inside
    /\ app.sessions < MaxSessions
    /\ app' = [app EXCEPT !.open = "True", !.inside = TRUE, !.sessions = @ + 1,
                          !.last = [raised |-> FALSE, inside |-> FALSE, op |-> "enter"]]
    /\ UNCHANGED <<fleet, gathered, versions, query, containers>>

\* a read of app.content, by the predicate inside the session or by anyone outside
ReadContent ==
    /\ Len(app.handles) + 2 <= MaxHandles
    /\ app' = [content(app).self EXCEPT
                 !.last = [raised |-> content(app).raised, inside |-> app.inside, op |-> "content"]]
    /\ UNCHANGED <<fleet, gathered, versions, query, containers>>

\* a read of app.files, a cached_property over content.namelist()
ReadFiles ==
    /\ Len(app.handles) + 2 <= MaxHandles
    /\ app' = IF app.files # Unset
              THEN [app EXCEPT !.last = [raised |-> FALSE, inside |-> app.inside, op |-> "files"]]
              ELSE [content(app).self EXCEPT
                      !.files = IF content(app).raised THEN Unset ELSE "namelist",
                      !.last = [raised |-> content(app).raised, inside |-> app.inside,
                                op |-> "files"]]
    /\ UNCHANGED <<fleet, gathered, versions, query, containers>>

\* app.with_data(data): an error, or the copy, which carries every attribute of the App
WithData ==
    /\ app' = IF app.open # "False"
              THEN [app EXCEPT !.last = [raised |-> TRUE, inside |-> app.inside, op |-> "with_data"]]
              ELSE [app EXCEPT !.data = "data",
                               !.last = [raised |-> FALSE, inside |-> app.inside, op |-> "with_data"]]
    /\ UNCHANGED <<fleet, gathered, versions, query, containers>>

\* the with block is left: the predicate returned, or an exception leaves it (raised)
Exit(raised) ==
    /\ app.inside
    /\ app' = [exit(app) EXCEPT !.inside = FALSE,
                                !.last = [raised |-> raised, inside |-> TRUE, op |-> "exit"]]
    /\ UNCHANGED <<fleet, gathered, versions, query, containers>>

NextApp ==
    \/ Enter
    \/ ReadContent
    \/ ReadFiles
    \/ WithData
    \/ \E raised \in BOOLEAN : Exit(raised)
SpecApp == InitApp /\ [][NextApp]_vars

\* `with app as open_app:` by another user of the same App object (a worker of another
\* pipeline) while the first is inside its with block: __enter__ assigns and returns
EnterOther ==
    /\ app.inside /\ app.others = 0
    /\ app.sessions < MaxSessions
    /\ app' = [app EXCEPT !.open = "True", !.others = 1, !.sessions = @ + 1,
                          !.last = [raised |-> FALSE, inside |-> TRUE, op |-> "enter"]]
    /\ UNCHANGED <<fleet, gathered, versions, query, containers>>

\* the other user leaves its with block
ExitOther ==
    /\ app.others = 1
    /\ app' = [exit(app) EXCEPT !.others = 0,
                                !.last = [raised |-> FALSE, inside |-> app.inside, op |-> "exit"]]
    /\ UNCHANGED <<fleet, gathered, versions, query, containers>>

NextShared == NextApp \/ EnterOther \/ ExitOther
SpecShared == InitApp /\ [][NextShared]_vars

\* C33: an __enter__ on an App whose with block is still open raises, so while a user
\* is inside its with block the App stays open: no other user's exit closes it
C33_DoubleEnterRaises ==
    /\ (app.last.op = "enter" /\ app.last.inside) => app.last.raised
    /\ (app.inside \/ app.others > 0) => app.open = "True"

\* C15: content and files read outside a with scope raise in every state of the App,
\* and with_data on an open App raises
C15_SessionDiscipline ==
    /\ (app.last.op \in {"content", "files"} /\ ~app.last.inside) => app.last.raised
    /\ (app.last.op = "with_data" /\ app.last.inside) => app.last.raised

CorpusSize == 3
MaxSortKey == 2

\* Apps.init: the App objects of the lock file, in its order; no data yet
Corpus == [ id \in 1..CorpusSize |-> [data |-> <<>>, id |-> id] ]
\* the dictionary the selector of select computes for an App
selector(item) == <<"data", item.id>>

\* (a variant of NextResult, for mutation: results taken as they complete)
NextResultAsCompleted(done, taken) == { r \in done : \A i \in DOMAIN taken : taken[i] # r }
\* Executor.map: the results are yielded in the order of the inputs, each when it is done
NextResult(done, taken) == { r \in done : r = Len(taken) + 1 }

\* the keys a key function returns: integers, or Version objects (App.frontend_version)
VersionKeys == << Version(<<"4">>, TRUE), Version(<<"4", ".", "1", "8">>, TRUE),
                  Version(<<"5">>, TRUE), Version(<<"4", ".", "2">>, TRUE) >>
key_lt(key_type, x, y) ==
    IF key_type = "int" THEN x < y
    ELSE Version_lt(VersionKeys[x], Operand("Version", VersionKeys[y]))
key_eq(key_type, x, y) ==
    IF key_type = "int" THEN x = y
    ELSE Version_eq(VersionKeys[x], Operand("Version", VersionKeys[y]))

\* (a variant of sorted, for mutation: an element goes before the equal keys)
RECURSIVE sorted_unstable(_, _)
sorted_unstable(pairs, key_type) ==
    IF pairs = <<>> THEN <<>>
    ELSE LET rest == sorted_unstable(SubSeq(pairs, 1, Len(pairs) - 1), key_type)
             n == Cardinality({ i \in DOMAIN rest :
                                  key_lt(key_type, rest[i].key, pairs[Len(pairs)].key) })
         IN  SubSeq(rest, 1, n) \o <<pairs[Len(pairs)]>> \o SubSeq(rest, n + 1, Len(rest))

\* list.sort on a short list: where binary insertion puts x in the sorted a[l+1..r]
RECURSIVE Bisect(_, _, _, _, _)
Bisect(a, x, l, r, key_type) ==
    IF l >= r THEN l
    ELSE IF key_lt(key_type, x.key, a[l + (r - l) \div 2 + 1].key)
         THEN Bisect(a, x, l, l + (r - l) \div 2, key_type)
         ELSE Bisect(a, x, l + (r - l) \div 2 + 1, r, key_type)
\* ... the elements from start on inserted one by one
RECURSIVE binarysort(_, _, _)
binarysort(a, start, key_type) ==
    IF start > Len(a) THEN a
    ELSE binarysort(
           CHOOSE b \in { SubSeq(a, 1, l) \o <<a[start]>> \o SubSeq(a, l + 1, start - 1)
                            \o SubSeq(a, start + 1, Len(a))
                          : l \in {Bisect(a, a[start], 0, start - 1, key_type)} } : TRUE,
           start + 1, key_type)
\* sorted(zip(keys, values), key=lambda k_v: k_v[0]): the leading run (reversed when it
\* is strictly descending), then binary insertion of the rest; it uses < only
sorted(pairs, key_type) ==
    IF Len(pairs) < 2 THEN pairs
    ELSE LET descending == key_lt(key_type, pairs[2].key, pairs[1].key)
             count_run == CHOOSE m \in 2..Len(pairs) :
                      /\ \A i \in 2..m :
                           key_lt(key_type, pairs[i].key, pairs[i - 1].key) = descending
                      /\ m < Len(pairs)
                           => key_lt(key_type, pairs[m + 1].key, pairs[m].key) # descending
         IN  binarysort(
               [ i \in DOMAIN pairs |->
                   IF descending /\ i <= count_run THEN pairs[count_run + 1 - i] ELSE pairs[i] ],
               count_run + 1, key_type)

\* itertools.groupby(s, key=key_func) and map_func on each run of equal keys
RECURSIVE groupby(_, _, _)
groupby(items, k, key_type) ==
    IF items = <<>> THEN <<>>
    ELSE LET groups == groupby(SubSeq(items, 1, Len(items) - 1), k, key_type)
             item == items[Len(items)]
         IN  IF groups # <<>> /\ key_eq(key_type, groups[Len(groups)].key, k[item.id])
             THEN [groups EXCEPT ![Len(groups)].apps = Append(@, item)]
             ELSE Append(groups, [key |-> k[item.id], apps |-> <<item>>])

\* the result of the terminal .list over the pairs of the sort
Listed(kind, key_type, pairs, k) ==
    IF kind = "pipeline" THEN [ i \in DOMAIN pairs |-> sorted(pairs, key_type)[i].item ]
    ELSE groupby([ i \in DOMAIN pairs |-> sorted(pairs, key_type)[i].item ], k, key_type)

\* Apps.init, with a pool or (for a bare IterContainer) without; the predicate p and
\* the key k of the query about to be made
InitQuery ==
    /\ FleetIdle
    /\ versions = <<>> /\ app = <<>> /\ containers = <<>>
    /\ \E kind \in {"pipeline", "group_by"}, key_type \in {"int", "Version"},
          executor \in BOOLEAN,
          p \in [1..CorpusSize -> {"true", "false", "raise"}],
          k \in [1..CorpusSize -> 1..MaxSortKey] :
         /\ kind = "pipeline" => key_type = "int"
         /\ kind = "group_by" => p = [id \in 1..CorpusSize |-> "true"]
         /\ query = [ k |-> k, pc |-> "start", kind |-> kind,
                      done |-> << {}, {}, {} >>, taken |-> << <<>>, <<>>, <<>> >>,
                      key_type |-> key_type, pairs |-> <<>>, executor |-> executor, p |-> p,
                      inp |-> << <<>>, <<>>, <<>> >>, list |-> <<>>, reordered |-> FALSE ]

\* apps.where(p): with a pool, filter submits one task per App at once
Where ==
    /\ query.pc = "start" /\ query.kind = "pipeline"
    /\ query' = IF query.executor
                THEN [query EXCEPT !.pc = "select", !.inp[1] = Corpus]
                ELSE [query EXCEPT !.pc = "lazy"]
    /\ UNCHANGED <<fleet, gathered, versions, app, containers>>

\* apps.group_by(grouper).list: with a pool, the sort submits one key task per App
GroupBy ==
    /\ query.pc = "start" /\ query.kind = "group_by"
    /\ query' = IF query.executor
                THEN [query EXCEPT !.pc = "zip", !.inp[3] = Corpus]
                ELSE [query EXCEPT !.pc = "lazy"]
    /\ UNCHANGED <<fleet, gathered, versions, app, containers>>

\* a task of the pool finishes: stage 1 the predicate, 2 the selector, 3 the sort key
Complete(stage, i) ==
    /\ query.executor
    /\ i \in DOMAIN query.inp[stage] /\ i \notin query.done[stage]
    /\ query' = [query EXCEPT
         !.done[stage] = @ \cup {i},
         !.reordered = @ \/ \E j \in 1..(i - 1) : j \notin query.done[stage]]
    /\ UNCHANGED <<fleet, gathered, versions, app, containers>>

\* .select(s): map submits the selector for each App that compress lets through
SelectTake ==
    /\ query.pc = "select"
    /\ IF Len(query.taken[1]) = Len(query.inp[1])
       THEN query' = [query EXCEPT !.pc = "keys"]
       ELSE \E r \in NextResult(query.done[1], query.taken[1]) :
              LET item == query.inp[1][Len(query.taken[1]) + 1]
                  result == query.p[query.inp[1][r].id]
              IN  query' = [query EXCEPT
                    !.taken[1] = Append(@, r),
                    !.pc = IF result = "raise" THEN "error" ELSE @,
                    !.inp[2] = IF result = "true" THEN Append(@, item) ELSE @]
    /\ UNCHANGED <<fleet, gathered, versions, app, containers>>

\* .order_by(k).list: __sorted submits the key of each App that map yields
KeysTake ==
    /\ query.pc = "keys"
    /\ IF Len(query.taken[2]) = Len(query.inp[2])
       THEN query' = [query EXCEPT !.pc = "zip"]
       ELSE \E r \in NextResult(query.done[2], query.taken[2]) :
              query' = [query EXCEPT
                !.taken[2] = Append(@, r),
                !.inp[3] = Append(@, [query.inp[2][r] EXCEPT !.data = selector(query.inp[2][r])])]
    /\ UNCHANGED <<fleet, gathered, versions, app, containers>>

\* zip(keys, values) under sorted, then the sort (and the grouping)
ZipTake ==
    /\ query.pc = "zip"
    /\ IF Len(query.taken[3]) = Len(query.inp[3])
       THEN query' = [query EXCEPT !.pc = "done",
                                   !.list = Listed(query.kind, query.key_type,
                                                   query.pairs, query.k)]
       ELSE \E r \in NextResult(query.done[3], query.taken[3]) :
              query' = [query EXCEPT
                !.taken[3] = Append(@, r),
                !.pairs = Append(@, [key |-> query.k[query.inp[3][r].id],
                                     item |-> query.inp[3][Len(query.taken[3]) + 1]])]
    /\ UNCHANGED <<fleet, gathered, versions, app, containers>>

\* without a pool .list pulls one App at a time through the lazy stages
PullLazy ==
    /\ query.pc = "lazy"
    /\ LET n == Len(query.taken[1]) + 1
           item == IF query.kind = "pipeline"
                   THEN [Corpus[n] EXCEPT !.data = selector(Corpus[n])] ELSE Corpus[n]
       IN  query' =
             IF n > CorpusSize
             THEN [query EXCEPT !.pc = "done",
                                !.list = Listed(query.kind, query.key_type,
                                                query.pairs, query.k)]
             ELSE IF query.kind = "pipeline" /\ query.p[n] = "raise"
             THEN [query EXCEPT !.pc = "error", !.taken[1] = Append(@, n)]
             ELSE IF query.kind = "pipeline" /\ query.p[n] = "false"
             THEN [query EXCEPT !.taken[1] = Append(@, n)]
             ELSE [query EXCEPT !.taken[1] = Append(@, n),
                                !.pairs = Append(@, [key |-> query.k[n], item |-> item])]
    /\ UNCHANGED <<fleet, gathered, versions, app, containers>>

NextQuery ==
    \/ Where
    \/ GroupBy
    \/ \E stage \in 1..3, i \in 1..CorpusSize : Complete(stage, i)
    \/ SelectTake
    \/ KeysTake
    \/ ZipTake
    \/ PullLazy
SpecQuery == InitQuery /\ [][NextQuery]_vars

\* the Apps of the corpus that satisfy p
Satisfying == { id \in 1..CorpusSize : query.p[id] = "true" }

\* C11: where(p).select(s).order_by(k).list holds exactly the Apps that satisfy p, each
\* once and with the data of s, in the order of a stable sort by k (equal keys keep the
\* corpus order), with or without a pool and for every completion order
C11_PipelineIsStableSortOfFilter ==
    (query.kind = "pipeline" /\ query.pc = "done")
        => /\ Len(query.list) = Cardinality(Satisfying)
           /\ { query.list[i].id : i \in DOMAIN query.list } = Satisfying
           /\ \A i \in DOMAIN query.list : query.list[i].data = selector(query.list[i])
           /\ \A i \in DOMAIN query.list, j \in DOMAIN query.list :
                i < j => \/ query.k[query.list[i].id] < query.k[query.list[j].id]
                         \/ /\ query.k[query.list[i].id] = query.k[query.list[j].id]
                            /\ query.list[i].id < query.list[j].id
\* a pipeline over a pool whose tasks finished out of order: one App dropped, two kept
\* with equal keys
C11_Witness ==
    /\ query.kind = "pipeline" /\ query.pc = "done"
    /\ query.executor /\ query.reordered
    /\ Cardinality(Satisfying) < CorpusSize
    /\ \E i \in DOMAIN query.list, j \in DOMAIN query.list :
         i < j /\ query.k[query.list[i].id] = query.k[query.list[j].id]

\* C12: group_by puts every element in exactly one group, the group lengths sum to the
\* input length, the groups come in ascending key order, one group per distinct key
C12_GroupByPartitions ==
    (query.kind = "group_by" /\ query.pc = "done")
        => LET groups == query.list
               places == { <<g, i>> \in (DOMAIN groups) \X (1..CorpusSize) :
                             i \in DOMAIN groups[g].apps }
           IN  /\ \A id \in 1..CorpusSize :
                    Cardinality({ pl \in places : groups[pl[1]].apps[pl[2]].id = id }) = 1
               /\ Cardinality(places) = CorpusSize
               /\ \A pl \in places : query.k[groups[pl[1]].apps[pl[2]].id] = groups[pl[1]].key
               /\ \A g \in DOMAIN groups, h \in DOMAIN groups :
                    g < h => /\ groups[g].key # groups[h].key
                             /\ ~key_lt(query.key_type, groups[h].key, groups[g].key)

\* C13: with a pool, filter keeps the retained inputs in input order and the i-th
\* output of map is f of the i-th input, for every completion order
C13_PoolKeepsInputOrder ==
    (query.kind = "pipeline" /\ query.executor)
        => /\ \A i \in DOMAIN query.inp[2] :
                /\ query.p[query.inp[2][i].id] = "true"
                /\ Cardinality({ id \in Satisfying : id < query.inp[2][i].id }) = i - 1
           /\ \A i \in DOMAIN query.inp[3] :
                /\ query.inp[3][i].id = query.inp[2][i].id
                /\ query.inp[3][i].data = selector(query.inp[2][i])
\* the tasks finished out of order and map has emitted the Apps that filter kept
C13_Witness ==
    /\ query.kind = "pipeline" /\ query.executor /\ query.reordered
    /\ Len(query.inp[3]) >= 2
    /\ Len(query.inp[3]) < Len(query.taken[1])

\* C17: in where, an exception of the predicate for one App counts as false: the App is
\* dropped, the others are evaluated and returned, the pipeline does not abort
C17_PredicateErrorIsFalse ==
    /\ query.pc # "error"
    /\ (query.kind = "pipeline" /\ query.pc = "done")
         => { query.list[i].id : i \in DOMAIN query.list } = Satisfying

\* ================================================== iter.py: class IterContainer
MaxElems == 3
MaxOps == 3

\* what an iterator over self.__iterable yields: a list is iterated from its start, an
\* iterator (a generator of a lazy operation, a tee object) from where it stands
Rest(self) ==
    IF self.iterable = "list" THEN self.elems
    ELSE SubSeq(self.elems, self.pos + 1, Len(self.elems))

\* __get_iter: tee(self.__iterable, n + 1), the first copy is kept as self.__iterable
\* and is not advanced; the copies handed out yield Rest(self)
get_iter(self) == [self EXCEPT !.iterable = "tee"]

\* IterContainer(list), or the container a lazy operation returned (with_iterable)
InitContainer ==
    /\ FleetIdle
    /\ versions = <<>> /\ app = <<>> /\ query = <<>>
    /\ \E n \in 0..MaxElems, iterable \in {"list", "generator"} :
         containers = [ last |-> [op |-> "init", materialized |-> FALSE, yielded |-> <<>>],
                        iterable |-> iterable, elems |-> [i \in 1..n |-> i],
                        pos |-> 0, cached |-> {}, ops |-> 0 ]

\* c.map(f) / filter / sort / unique / c[a:b] / group_by / flat_map, then .list of the
\* container returned (f the identity, the predicate true, the elements in order)
Lazy(op) ==
    /\ containers.ops < MaxOps
    /\ containers' = [get_iter(containers) EXCEPT
         !.ops = @ + 1,
         !.last = [op |-> op, materialized |-> TRUE, yielded |-> Rest(containers)]]
    /\ UNCHANGED <<fleet, gathered, versions, app, query>>

\* c.list (and c.length through it): a cached_property
TerminalList ==
    /\ containers.ops < MaxOps
    /\ containers' =
         IF "list" \in containers.cached
         THEN [containers EXCEPT
                 !.ops = @ + 1,
                 !.last = [op |-> "list", materialized |-> TRUE, yielded |-> containers.elems]]
         ELSE [get_iter(containers) EXCEPT
                 !.ops = @ + 1,
                 !.cached = IF Rest(containers) = containers.elems THEN @ \cup {"list"} ELSE @,
                 !.last = [op |-> "list", materialized |-> TRUE, yielded |-> Rest(containers)]]
    /\ UNCHANGED <<fleet, gathered, versions, app, query>>

\* c.first, c.is_empty (cached), c.first_or_default, c.reduce, c.some, c.every
Terminal(op) ==
    /\ containers.ops < MaxOps
    /\ containers' =
         IF op \in containers.cached
         THEN [containers EXCEPT
                 !.ops = @ + 1,
                 !.last = [op |-> op, materialized |-> FALSE, yielded |-> <<>>]]
         ELSE [get_iter(containers) EXCEPT
                 !.ops = @ + 1,
                 !.cached = IF op \in {"first", "is_empty"} THEN @ \cup {op} ELSE @,
                 !.last = [op |-> op, materialized |-> FALSE, yielded |-> <<>>]]
    /\ UNCHANGED <<fleet, gathered, versions, app, query>>

\* the container is what the callback of another container's flat_map returned, and
\* that flat_map is materialized: `for c in b.__iterable` runs over the iterable itself
FlatMapped ==
    /\ containers.ops < MaxOps
    /\ containers' = [containers EXCEPT
         !.ops = @ + 1,
         !.pos = IF containers.iterable = "list" THEN @ ELSE Len(containers.elems),
         !.last = [op |-> "flat_mapped", materialized |-> FALSE, yielded |-> Rest(containers)]]
    /\ UNCHANGED <<fleet, gathered, versions, app, query>>

NextContainer ==
    \/ \E op \in {"map", "filter", "flat_map", "sort", "unique", "slice", "group_by"} : Lazy(op)
    \/ TerminalList
    \/ \E op \in {"first", "first_or_default", "is_empty", "reduce", "some", "every"} :
         Terminal(op)
    \/ FlatMapped
SpecContainer == InitContainer /\ [][NextContainer]_vars

\* C14: no lazy operation or terminal consumes a container: every container, also one
\* returned as the inner sequence of a flat_map callback, yields its full sequence
\* each time it is materialized afterwards
C14_ReIterable ==
    containers.last.materialized => containers.last.yielded = containers.elems

\* ================================================== apps.py: Apps.unique_repos
MaxRepos == 3

\* the Apps a lock file may describe; org and app names are strings (characters in a
\* tuple) and may hold a hyphen
RepoApps ==
    { [env |-> env, org |-> org, app |-> name]
      : env \in Envs, org \in { <<"a">>, <<"a", "-", "b">> },
        name \in { <<"c">>, <<"b", "-", "c">> } }

\* App.repo_key: f"{self.org}-{self.app}"
repo_key(self) == self.org \o <<"-">> \o self.app

\* IterContainer.__unique with key repo_key: an element is yielded when its key was
\* not seen before
RECURSIVE unique(_)
unique(items) ==
    IF items = <<>> THEN <<>>
    ELSE IF \E i \in 1..(Len(items) - 1) : repo_key(items[i]) = repo_key(items[Len(items)])
         THEN unique(SubSeq(items, 1, Len(items) - 1))
         ELSE Append(unique(SubSeq(items, 1, Len(items) - 1)), items[Len(items)])

\* Apps.init on a lock file: its entries have distinct keys "{env}-{org}-{app}"
InitRepos ==
    /\ FleetIdle
    /\ versions = <<>> /\ app = <<>> /\ containers = <<>>
    /\ \E n \in 0..MaxRepos : \E apps \in [1..n -> RepoApps] :
         /\ \A i \in 1..n, j \in 1..n :
              (i # j /\ apps[i].env = apps[j].env) => repo_key(apps[i]) # repo_key(apps[j])
         /\ query = [pc |-> "start", apps |-> apps, list |-> <<>>]

\* apps.unique_repos().list: sort(lambda app: app.env), the keys "prod" < "tt02"
\* compared as strings, then unique(lambda app: app.repo_key)
unique_repos ==
    /\ query.pc = "start"
    /\ query' = [query EXCEPT
         !.pc = "done",
         !.list = unique([ i \in DOMAIN query.apps |->
                     sorted([ j \in DOMAIN query.apps |->
                                [key |-> IF query.apps[j].env = "prod" THEN 1 ELSE 2,
                                 item |-> query.apps[j]] ], "int")[i].item ])]
    /\ UNCHANGED <<fleet, gathered, versions, app, containers>>

SpecRepos == InitRepos /\ [][unique_repos]_vars

\* C21: unique_repos returns one App of the input for each distinct (org, app) pair of
\* the input and drops no pair; for a pair deployed in prod it is the prod App, in
\* every input order
C21_UniqueRepos ==
    query.pc = "done"
        => /\ { <<query.list[i].org, query.list[i].app>> : i \in DOMAIN query.list }
                = { <<query.apps[i].org, query.apps[i].app>> : i \in DOMAIN query.apps }
           /\ \A i \in DOMAIN query.list :
                /\ \E j \in DOMAIN query.apps : query.apps[j] = query.list[i]
                /\ \A j \in DOMAIN query.list :
                     (i # j) => <<query.list[i].org, query.list[i].app>>
                                  # <<query.list[j].org, query.list[j].app>>
                /\ (\E j \in DOMAIN query.apps :
                      /\ query.apps[j].org = query.list[i].org
                      /\ query.apps[j].app = query.list[i].app
                      /\ query.apps[j].env = "prod")
                     => query.list[i].env = "prod"

\* ================================================ claims on the stages of a run
\* C22: a download whose last answer was an error status (404, or another one after
\* the retries) or a transport error leaves a failed entry for the key in the new lock
\* and no archive file
C22_FailedDownloadEndsFailed ==
    \A k \in Keys, se \in StudioEnvs :
        (run = 1 /\ pc[k] = "done"
           /\ remote.answer[DlReq(k, se)] \in {{"404"}, {"500"}, {"error"}, {"abort"}})
            => /\ Get(next_version_lock, k).status = "failed"
               /\ files[k] = "absent"

\* C23: no archive of a key that left the lock is unlinked before the new lock file is
\* written: the lock file on disk never lists a success entry whose archive this run
\* has deleted
C23_LockWrittenBeforeUnlink ==
    \A k \in stats.apps_removed :
        ~(Get(lock_file.entries, k).status = "success" /\ files[k] = "absent")

\* C24: with retry-failed off, a deployment whose previous entry is failed makes no
\* releases request and no download, whatever version is deployed; its previous entry
\* is copied unchanged into the new lock and it is counted as skipped
C24_PreviousFailureSkipped ==
    ~retry_failed =>
        \A k \in DeployedKeys :
            Prev(k).status = "failed" =>
                /\ pc[k] \in {"new", "done"}
                /\ k \notin opened
                /\ files[k] = "absent"
                /\ pc[k] = "done" => /\ Get(next_version_lock, k) = Prev(k)
                                     /\ k \in stats.skipped_releases_failure
                /\ Completed => Get(lock_file.entries, k) = Prev(k)
\* a run completed that skipped a failed entry whose deployed version had changed
C24_Witness ==
    /\ ~retry_failed
    /\ Completed
    /\ \E k \in DeployedKeys :
         /\ Prev(k).status = "failed"
         /\ DeployedVersion(k) # Prev(k).version
         /\ k \in stats.skipped_releases_failure

\* C25: a deployment whose previous entry is success with the deployed version makes no
\* releases request and no download; its archive is not opened for writing and not
\* removed, and the previous entry is copied unchanged into the new lock
C25_UpToDateSkipped ==
    \A k \in DeployedKeys :
        (Prev(k).status = "success" /\ DeployedVersion(k) = Prev(k).version) =>
            /\ pc[k] \in {"new", "done"}
            /\ k \notin opened
            /\ files[k] = "complete"
            /\ pc[k] = "done" => /\ Get(next_version_lock, k) = Prev(k)
                                 /\ k \in stats.already_up_to_date_releases
\* the end-of-run cleanup removed another archive and kept the one that was up to date
C25_Witness ==
    /\ Completed
    /\ stats.apps_removed # {}
    /\ \E k \in DeployedKeys :
         /\ Prev(k).status = "success" /\ DeployedVersion(k) = Prev(k).version
         /\ k \in stats.already_up_to_date_releases
         /\ files[k] = "complete"

C27_EveryConfiguredEnvProbed ==
    \A k \in Keys :
        (pc[k] = "http" /\ Prev(k) # None /\ dep[k].studio_env = Prev(k).studio_env) =>
            \A se \in StudioEnvs :
                (HasToken(se) /\ se # Prev(k).studio_env) => se \in SeqToSet(dep[k].envs)

\* C28: a deployment for which no probed studio environment gave a matching release:
\* with a previous entry, that entry is in the new lock unchanged, the archive is not
\* opened and stays, and the deployment is in the warning list; without one, the key
\* is not in the new lock
C28_NoMatchCarriesPrevious ==
    \A k \in stats.no_matching_releases :
        IF Prev(k) # None
        THEN /\ Get(next_version_lock, k) = Prev(k)
             /\ k \in stats.fetch_release_with_existing_app_failed
             /\ k \notin opened
             /\ Prev(k).status = "success" => files[k] = "complete"
             /\ Completed => Get(lock_file.entries, k) = Prev(k)
        ELSE /\ ~Has(next_version_lock, k)
             /\ k \notin stats.fetch_release_with_existing_app_failed
             /\ Completed => ~Has(lock_file.entries, k)
\* a completed run with both cases: one releases request failed, one had no match
C28_Witness ==
    /\ Completed
    /\ faults > 0
    /\ \E k \in stats.no_matching_releases, j \in stats.no_matching_releases :
         /\ Prev(k).status = "success" /\ files[k] = "complete"
         /\ Prev(j) = None

\* C29: a studio environment without a token (no key of the key file, or a null
\* token) is a soft skip: no task ends with an exception, and a retried deployment
\* whose entry names such an environment downloads nothing and keeps its entry
C29_MissingTokenSoftSkip ==
    /\ \A t \in Tasks : pc[t] # "raised"
    /\ \A k \in DeployedKeys :
         (retry_failed /\ Prev(k).status = "failed" /\ DeployedVersion(k) = Prev(k).version
            /\ ~HasToken(Prev(k).studio_env) /\ pc[k] # "new") =>
             /\ pc[k] = "done"
             /\ k \notin opened
             /\ Get(next_version_lock, k) = Prev(k)

\* C30: a fetch_json call sends at most max_retries requests; it sends another one
\* only after a read timeout and the sleep that follows, and the timeout of the
\* max_retries-th request is not followed by a sleep
C30_FetchJsonBoundedRetries ==
    /\ [](\A t \in Tasks :
            /\ attempt[t] <= max_retries
            /\ pc[t] = "sleep" => attempt[t] < max_retries)
    /\ [][\A t \in Tasks :
            /\ (attempt[t] > 0 /\ attempt'[t] > attempt[t]) =>
                   pc[t] = "sleep" /\ attempt'[t] = attempt[t] + 1
            /\ (pc'[t] = "sleep" /\ pc[t] # "sleep") =>
                   pc[t] = "http" /\ faults' = faults + 1]_vars
\* the orgs request timed out max_retries times and fetch_orgs caught the exception
C30_Witness ==
    /\ stats.fetch_orgs_failed
    /\ faults = MaxFaults
    /\ pc[MainTask] = "gather"

\* ============================== download.py: the Deployments of listed responses
MaxListed == 2

\* the orgs documents of this part: the orgs of the dict and their raw environments,
\* which may name an environment twice; names are strings (characters in a tuple)
ListedOrgsDocs ==
    { [orgs |-> <<<<"a">>>>, environments |-> <<"production">>],
      [orgs |-> <<<<"a">>>>, environments |-> <<"production", "production">>],
      [orgs |-> <<<<"a">>, <<"a", "-", "b">>>>, environments |-> <<"production">>] }

\* the deployments responses of this part: the release names of up to MaxListed
\* entries, in a list
ListedResponses ==
    UNION { [1..n -> { <<"a", "-", "c">>, <<"a", "-", "b", "-", "c">> }] : n \in 1..MaxListed }

\* str.removeprefix
removeprefix(str, prefix) ==
    IF Len(str) >= Len(prefix) /\ SubSeq(str, 1, Len(prefix)) = prefix
    THEN SubSeq(str, Len(prefix) + 1, Len(str))
    ELSE str

\* Deployment.key, Release.key: f"{self.env}-{self.org}-{self.app}"
Deployment_key(self) == <<self.env>> \o <<"-">> \o self.org \o <<"-">> \o self.app

\* get_clusters as the list it is: one Cluster per org and per valid environment of
\* the org's list, in order
RECURSIVE clusters_of(_, _)
clusters_of(orgs, environments) ==
    IF orgs = <<>> THEN <<>>
    ELSE [ i \in DOMAIN get_valid_envs(environments) |->
             [env |-> get_valid_envs(environments)[i], org |-> Head(orgs)] ]
         \o clusters_of(Tail(orgs), environments)

\* get_deployments as the list it is: one Deployment per listed release
deployments_of(cluster, response) ==
    [ i \in DOMAIN response |->
        [env |-> cluster.env, org |-> cluster.org,
         app |-> removeprefix(response[i], cluster.org \o <<"-">>)] ]

\* update_apps and update_cluster: gather one update_deployment per Deployment of
\* each Cluster
RECURSIVE gather(_, _)
gather(clusters, response) ==
    IF clusters = <<>> THEN <<>>
    ELSE deployments_of(Head(clusters), response) \o gather(Tail(clusters), response)

InitGathered ==
    /\ Start /\ remote = NoRemote(FALSE) /\ ~retry_failed /\ prev_version_lock = <<>>
    /\ versions = <<>> /\ app = <<>> /\ query = <<>> /\ containers = <<>>
    /\ \E doc \in ListedOrgsDocs, response \in ListedResponses :
         \E ds \in {gather(clusters_of(doc.orgs, doc.environments), response)} :
            gathered = [ pc |-> [i \in DOMAIN ds |-> "release"],
                         deployments |-> ds,
                         inserted |-> <<>> ]

\* download_file: aiofiles.open(file_path, "wb") of "{key}.zip"
GatheredOpen(i) ==
    /\ gathered.pc[i] = "release"
    /\ gathered' = [gathered EXCEPT !.pc[i] = "stream"]
    /\ UNCHANGED fleet
    /\ UNCHANGED <<versions, app, query, containers>>

\* update_repository after download_file returned: the file is closed and
\* next_version_lock[release.key] is assigned
GatheredSuccess(i) ==
    /\ gathered.pc[i] = "stream"
    /\ gathered' = [gathered EXCEPT !.pc[i] = "success", !.inserted = Append(@, i)]
    /\ UNCHANGED fleet
    /\ UNCHANGED <<versions, app, query, containers>>

\* update_repository after download_file raised: next_version_lock[release.key] is
\* assigned and the file is removed
GatheredFail(i) ==
    /\ gathered.pc[i] = "stream"
    /\ gathered' = [gathered EXCEPT !.pc[i] = "failed", !.inserted = Append(@, i)]
    /\ UNCHANGED fleet
    /\ UNCHANGED <<versions, app, query, containers>>

NextGathered ==
    \/ \E i \in DOMAIN gathered.deployments : GatheredOpen(i)
    \/ \E i \in DOMAIN gathered.deployments : GatheredSuccess(i)
    \/ \E i \in DOMAIN gathered.deployments : GatheredFail(i)

SpecGathered == InitGathered /\ [][NextGathered]_vars

\* C31: no two tasks have the same {key}.zip open for writing at once (so none
\* removes it under a writer), and no two tasks assign the same key of the new lock
C31_SingleOwner ==
    \A i \in DOMAIN gathered.deployments, j \in DOMAIN gathered.deployments :
        (i # j /\ Deployment_key(gathered.deployments[i]) = Deployment_key(gathered.deployments[j]))
            => /\ ~(gathered.pc[i] = "stream" /\ gathered.pc[j] = "stream")
               /\ ~(gathered.pc[i] \in {"success", "failed"} /\ gathered.pc[j] \in {"success", "failed"})

\* C36: two Deployments of a run with different (env, org, app) triples have different
\* keys, so they share no lock entry and no archive file, also with "-" in a name
C36_KeyIdentifiesApp ==
    \A i \in DOMAIN gathered.deployments, j \in DOMAIN gathered.deployments :
        gathered.deployments[i] # gathered.deployments[j]
            => Deployment_key(gathered.deployments[i]) # Deployment_key(gathered.deployments[j])

\* =========================================== claims on the stages of a query
\* Apps.init: ThreadPoolExecutor(max_workers=max_open_files)
max_open_files == 100

\* C32: with a pool, the selector of select(s) runs on no App while select is still
\* submitting, before a consumer asks for a result of the map; and at every stage the
\* Apps submitted to the pool and not yet asked for are at most the pool's workers
C32_LazyWithBackpressure ==
    query.executor
        => /\ query.pc = "select" => query.done[2] = {}
           /\ \A stage \in 1..3 :
                Len(query.inp[stage]) - Len(query.taken[stage]) <= max_open_files

\* ============================================== claims on the request broker
\* the event loop runs every coroutine that can take a step, and every HTTP request
\* is answered, fails or times out: some enabled step of the run is always taken
SpecLive == Init /\ [][Next]_vars /\ WF_vars(Next)

\* C34: every task that waits for a permit of its host obtains one
C34_BrokerLive ==
    \A t \in Tasks : (pc[t] = "acq") ~> (pc[t] # "acq")

\* the permits of host h held by the tasks of a set
RECURSIVE HeldOn(_, _)
HeldOn(tasks, h) ==
    IF tasks = {} THEN 0
    ELSE LET t == CHOOSE x \in tasks : TRUE
         IN  (IF Held(t) > 0 /\ HostOf(t) = h THEN Held(t) ELSE 0) + HeldOn(tasks \ {t}, h)

\* C35: for every host, the permits in its queue and the permits held by tasks inside
\* request_queue add up to the permits the queue was created with, also after
\* failures and a cancellation; with no task inside request_queue all are in the queue
C35_PermitsConserved ==
    \A h \in Hosts :
        /\ queue[h] + HeldOn(Tasks, h) = MaxConcurrent
        /\ (\A t \in Tasks : pc[t] \notin {"acq", "http", "sleep", "dl_acq", "dl_http", "dl_stream"})
              => queue[h] = MaxConcurrent
\* a cancelled run in which a download had completed and a request had failed
C35_Witness ==
    /\ cancelled /\ pc[MainTask] = "cancelled"
    /\ stats.download_success # {} /\ faults > 0
    /\ \A h \in Hosts : queue[h] = MaxConcurrent

\* ============================================ claims on the statistics of a run
\* C37: after a completed run every Deployment of stage 2 is in exactly one of the five
\* outcome lists
C37_OutcomePartition ==
    Completed
        => \A k \in DeployedKeys :
             Cardinality({ outcome \in { "download_success", "download_failed",
                                         "already_up_to_date_releases",
                                         "skipped_releases_failure", "no_matching_releases" } :
                             k \in stats[outcome] }) = 1

\* ===================================== apps.py: App.with_data and the columns
MaxSelects == 2

\* the dictionaries a selector may compute for an App: (name, value) pairs in order
Selections ==
    { << <<"a", 1>> >>, << <<"b", 2>> >>, << <<"b", 2>>, <<"a", 3>> >> }

\* list(self.data.keys()) and list(self.data.values())
dict_keys(data) == [ i \in DOMAIN data |-> data[i][1] ]
dict_values(data) == [ i \in DOMAIN data |-> data[i][2] ]

\* the cached_property App.data_keys: computed from self.data on the first read and
\* stored in the instance dictionary, returned from there afterwards
data_keys(self) ==
    IF "data_keys" \in DOMAIN self.cached THEN self.cached["data_keys"] ELSE dict_keys(self.data)
\* the cached_property App.data_values
data_values(self) ==
    IF "data_values" \in DOMAIN self.cached THEN self.cached["data_values"]
    ELSE dict_values(self.data)

\* App.__repr__: reads data_keys and data_values
repr(self) ==
    [self EXCEPT !.cached = [ name \in {"data_keys", "data_values"} |->
                                IF name = "data_keys" THEN data_keys(self) ELSE data_values(self) ]]

\* App.with_data on an App that is not open: copy(self), which carries the instance
\* dictionary as it is, then app.data = data
with_data(self, data) == [self EXCEPT !.data = data]

\* an App of Apps.init (self.data = {}, nothing cached), and no select made yet; apps
\* holds the App and after it the copies the selects returned
InitSelect ==
    /\ FleetIdle
    /\ versions = <<>> /\ query = <<>> /\ containers = <<>>
    /\ app = [ apps |-> << [data |-> <<>>, cached |-> <<>>] >>,
               selected |-> <<>>, before |-> <<>> ]

\* an App is rendered (the table of its Apps, or repr of the App)
Render(i) ==
    /\ i \in DOMAIN app.apps
    /\ app' = [app EXCEPT !.apps[i] = repr(@)]
    /\ UNCHANGED <<fleet, gathered, versions, query, containers>>

\* apps.select(s) on the last result: the selector computed data for its App
Select(data) ==
    /\ Len(app.apps) <= MaxSelects
    /\ app' = [ apps |-> Append(app.apps, with_data(app.apps[Len(app.apps)], data)),
                selected |-> data,
                before |-> app.apps[Len(app.apps)].data ]
    /\ UNCHANGED <<fleet, gathered, versions, query, containers>>

NextSelect ==
    \/ \E i \in 1..(MaxSelects + 1) : Render(i)
    \/ \E data \in Selections : Select(data)
SpecSelect == InitSelect /\ [][NextSelect]_vars

\* C38: the App returned by select(s) has the data of s, and its data_keys and
\* data_values read as the names and the values of s in order, whatever was selected
\* or rendered before; the data of the source App is what it was
C38_SelectProjection ==
    Len(app.apps) > 1
        => /\ app.apps[Len(app.apps)].data = app.selected
           /\ data_keys(app.apps[Len(app.apps)]) = dict_keys(app.selected)
           /\ data_values(app.apps[Len(app.apps)]) = dict_values(app.selected)
           /\ app.apps[Len(app.apps) - 1].data = app.before

\* ====================================================== apps.py: Apps.init
\* (a variant of Apps_init, for mutation: the status of the entry is not tested)
RECURSIVE Apps_init_any_status(_)
Apps_init_any_status(lock) ==
    IF lock = <<>> THEN <<>>
    ELSE <<[env |-> Head(lock).data.env, org |-> Head(lock).data.org,
            app |-> Head(lock).data.app, commit_sha |-> Head(lock).data.commit_sha,
            studio_env |-> Head(lock).data.studio_env, data |-> <<>>]>>
         \o Apps_init_any_status(Tail(lock))

\* Apps.init: the loop over lock_file.values(), one App per entry with status success
RECURSIVE Apps_init(_)
Apps_init(lock) ==
    IF lock = <<>> THEN <<>>
    ELSE (IF Head(lock).data.status = "success"
          THEN <<[env |-> Head(lock).data.env, org |-> Head(lock).data.org,
                  app |-> Head(lock).data.app, commit_sha |-> Head(lock).data.commit_sha,
                  studio_env |-> Head(lock).data.studio_env, data |-> <<>>]>>
          ELSE <<>>)
         \o Apps_init(Tail(lock))

\* Apps.init() on the lock file a run has left, with no update running
ReadLock ==
    /\ DOMAIN query = {}
    /\ pc[MainTask] = "new"
    /\ lock_file.valid
    /\ query' = [pc |-> "start", apps |-> Apps_init(lock_file.entries), list |-> <<>>]
    /\ UNCHANGED <<fleet, gathered, versions, app, containers>>

SpecCorpus == Init /\ [][ReadLock]_vars

\* the entries of the lock file with status success
Successes == { i \in DOMAIN lock_file.entries : lock_file.entries[i].data.status = "success" }

\* C39: the corpus is one App per entry of the lock file with status success, in the
\* order of the file and with the entry's env, org, app, commit_sha and studio_env;
\* every App of the corpus has a key the lock file lists with status success
C39_CorpusFromLock ==
    DOMAIN query # {}
        => /\ Len(query.apps) = Cardinality(Successes)
           /\ \A i \in Successes :
                LET n == Cardinality({ j \in Successes : j <= i })
                    entry == lock_file.entries[i].data
                IN  /\ query.apps[n].env = entry.env /\ query.apps[n].org = entry.org
                    /\ query.apps[n].app = entry.app
                    /\ query.apps[n].commit_sha = entry.commit_sha
                    /\ query.apps[n].studio_env = entry.studio_env
           /\ \A n \in DOMAIN query.apps :
                Get(lock_file.entries,
                    key(query.apps[n].env, query.apps[n].org, query.apps[n].app)).status = "success"
\* a lock file with a failed entry before a success entry was read
C39_Witness ==
    /\ DOMAIN query # {}
    /\ Len(lock_file.entries) = 2
    /\ lock_file.entries[1].data.status = "failed"
    /\ lock_file.entries[2].data.status = "success"
    /\ Len(query.apps) = 1

====
